---- MODULE Spec2Model ----
(***************************************************************************)
(* A model of the request-execution core of msrest (Azure/msrest-for-      *)
(* python): the policy chain (msrest/pipeline/__init__.py), the            *)
(* credential refresh-and-resend protocol (pipeline/requests.py,           *)
(* service_client.py, async_client.py, pipeline/async_requests.py), the    *)
(* retry configuration and the redirect decision (pipeline/requests.py),   *)
(* the streaming download iterators (pipeline/requests.py,                 *)
(* service_client.py, pipeline/async_requests.py, pipeline/aiohttp.py),    *)
(* the paged iterator (paging.py), the long-running-operation poller       *)
(* (polling), the scope and sessions of the requests senders               *)
(* (pipeline/requests.py), the asynchronous policy chain                   *)
(* (pipeline/async_abc.py), the sessions a ServiceClient sends with        *)
(* (service_client.py), several Pipelines made from the same policy        *)
(* objects (pipeline/__init__.py), the synchronous and the asynchronous    *)
(* requests stack side by side, RequestsPatchSession on a shared session   *)
(* (pipeline/requests.py) and the call each sender hands to the HTTP       *)
(* engine (pipeline/requests.py, async_requests.py, aiohttp.py).           *)
(*                                                                         *)
(* Each component has its own variables, its own initial predicate and     *)
(* its own next-state relation; a component whose program counter is       *)
(* "off" takes no step.  Spec is the union of the components.              *)
(***************************************************************************)
EXTENDS Integers, Sequences, FiniteSets, TLC

VARIABLES
    \* ---- Pipeline (msrest/pipeline/__init__.py) ----
    pPolicies,   \* the SansIOHTTPPolicy objects given to Pipeline(policies, sender)
    pNext,       \* the "next" attribute of every _SansIOHTTPPolicyRunner (0 = the sender)
    pPc,         \* where the current run() is: off, idle, call, return, done, raised
    pCur,        \* the node whose send() is about to execute
    pStack,      \* runners that called next.send() and wait for its return
    pLog,        \* hooks and sends executed by the current run, in order
    pSent,       \* the response the sender produced in this run
    pResult,     \* what run() returned
    pContext,    \* request.pipeline_context
    pContexts,   \* number of build_context() calls made so far
    pRuns,       \* number of run() calls started
    pCtxSession, \* request.pipeline_context.session
    pSendSession, \* the session the sender used for the send of this run
    pSwaps,      \* assignments policies made to request.pipeline_context.session
    \* ---- Credential protocol ----
    cImpl,       \* which implementation of the protocol runs
    cSignInject, \* credentials.signed_session accepts a session argument
    cRefreshInject, \* credentials.refresh_session accepts a session argument
    cPc,         \* off, sign, send1, refresh, send2, done
    cLog,        \* sends and refreshes executed by the call, in order
    cSession,    \* the session the sends use: "context" or "credentials"
    cOutcome,    \* what the call returned or raised
    \* ---- Retry (ClientRetryPolicy, installed on the session's adapters) ----
    rTotal,      \* config.retry_policy.policy.total, the Retry object the adapters hold
    rConfigured, \* the budget last set through the configuration
    rPc,         \* off, idle, attempt, done
    rMethod,     \* method of the request of the current call
    rBudget,     \* the configured budget when the current call started
    rRemaining,  \* total of the Retry state of the current call
    rAttempts,   \* requests put on the wire by the current call
    rRetried,    \* answers of the current call that qualified for a retry
    rLast,       \* status of the last answer
    rOutcome,    \* what the call returned or raised
    rCalls,      \* calls started on this client
    rEarlier,    \* retries consumed by the calls that ended before
    \* ---- Redirect (ClientRedirectPolicy and the patched session) ----
    dAllow,      \* config.redirect_policy.allow
    dMax,        \* session.max_redirects
    dPc,         \* off, idle, respond, resolve, done
    dSent,       \* methods of the requests sent by the call, in order
    dAnswers,    \* <<status, has Location>> of the answers received, in order
    dChecked,    \* wrapped_redirect has been consulted for this call
    dOutcome,    \* what the call returned or raised
    dCalls,      \* session.request() calls started on this session
    \* ---- Streaming download (stream_download and its iterators) ----
    sImpl,       \* which stream_download implementation produced the sequence
    sConsumed,   \* response._content_consumed: the body is already in memory
    sCallback,   \* the progress callback: "none" or "given"
    sBlock,      \* the block size handed to iter_content / content.read
    sBody,       \* the body the response carries
    sRest,       \* the part of the body the source has not handed out yet
    sEnd,        \* how the source signals its end: "stop" or "empty" (an empty chunk)
    sPc,         \* off, fresh, open, ended, released
    sLog,        \* fetches, callback calls, yields and close() calls, in order
    sLast,       \* what the last pull handed to the consumer
    sPulls,      \* pulls made by the consumer
    \* ---- Paging (Paged, msrest/paging.py) ----
    gGetNext,    \* self._get_next: the page each token fetches
    gNextLink,   \* self.next_link
    gCurrentPage, \* self.current_page
    gIterIndex,  \* self._current_page_iter_index
    gPc,         \* off, ready
    gVia,        \* how the current iteration started: fresh, reset, get
    gStart,      \* the token the current iteration started from
    gPure,       \* only __next__ has been called since the iteration started
    gOut,        \* elements __next__ returned since the iteration started
    gFetched,    \* tokens handed to the fetch operation since the iteration started
    gLast,       \* the last operation: its name, argument, result and fetches
    \* ---- Polling (LROPoller, async_poller and their polling methods) ----
    lImpl,       \* the poller: "LROPoller" or "async_poller"
    lSteps,      \* run steps the polling method needs to finish (0: NoPolling)
    lFinal,      \* the terminal status the operation is going to reach
    lBreaks,     \* the run step that raises (0: none)
    lStatus,     \* status() of the polling method
    lRuns,       \* run steps the poller invoked
    lDirect,     \* run() calls made on the polling method by its user
    lQueries,    \* pipeline calls made since initialize
    lPc,         \* off, polling, finished, ended, broken
    lCallbacks,  \* callbacks registered and not yet invoked
    lCalled,     \* <<callback, argument>> of the callback invocations, in order
    lWaiting,    \* result() was called, or the async_poller is awaited
    lResult,     \* what result() or the await returned or raised
    lDeserialized, \* calls of the deserialization callback
    \* ---- Sender scope and sessions (Pipeline.__enter__/__exit__, the requests senders) ----
    hKind,       \* the sender class: BasicRequestsHTTPSender or RequestsHTTPSender
    hPc,         \* off, ready
    hEnters,     \* sender.__enter__ calls made by Pipeline.__enter__
    hExits,      \* sender.__exit__ calls made by Pipeline.__exit__
    hCloses,     \* sender.close() calls made by the user
    hSessionCloses, \* session.close() calls
    hPools,      \* the session holds open connections
    hBuilt,      \* <<thread, session, attributes of session.resolve_redirects>> per build_context()
    \* ---- AsyncPipeline (msrest/pipeline/async_abc.py) ----
    aPython,     \* the interpreter: "3.6" or "3.7" (and later)
    aPolicies,   \* classes of the SansIOHTTPPolicy objects given to AsyncPipeline
    aPc,         \* off, new, abstract, idle, call, return, done, raised
    aCur,        \* the node whose send() is about to execute
    aStack,      \* runners that await next.send()
    aLog,        \* hooks and sends executed by the current run, in order
    aSent,       \* the response the sender produced in this run
    aResult,     \* what the construction or run() returned or raised
    aRuns,       \* number of run() calls started
    aEnters,     \* "async with" blocks entered
    aExits,      \* "async with" blocks left
    aSenderExits, \* sender.__aexit__ calls
    \* ---- ServiceClient sessions (msrest/service_client.py) ----
    kKeepAlive,  \* config.keep_alive of the Configuration the clients share
    kPreset,     \* the value config.keep_alive had before any scope was entered
    kInject,     \* the credentials accept a session argument
    kPc,         \* off, ready
    kScope,      \* per client: its "with" scope is open
    kAtEnter,    \* per client: config.keep_alive when its scope was entered
    kDriver,     \* per client: the session self._http_driver.session holds
    kSessions,   \* every session created so far: origin, close() calls, open streamed response
    kReqCtx,     \* the session in pipeline_context of the request object sent before (0: none)
    kLast,       \* what the last send() did
    kSends,      \* send() calls made so far
    kEnters,     \* scopes entered so far
    \* ---- Chains of several Pipelines (Pipeline.__init__) ----
    nPc,         \* off, ready
    nNext,       \* the "next" attribute of every node that has been wired
    nChains,     \* per Pipeline built: its _impl_policies
    nWired,      \* per Pipeline built: the next references its __init__ assigned
    nRun,        \* the Pipeline whose chain is being followed (0: none)
    nAt,         \* the node the send has reached
    nVisited,    \* the nodes the send went through
    \* ---- The synchronous and the asynchronous requests stack on the same inputs ----
    qPolicy,     \* a credentials policy is installed in the pipelines
    qSignInject, \* credentials.signed_session accepts a session argument
    qRefreshInject,\* credentials.refresh_session accepts a session argument
    qFirst,      \* what the transport answers to the first send
    qRefresh,    \* what refresh_session does
    qSecond,     \* what the transport answers to the second send
    qPc,         \* off, ready
    qSync,       \* what the call on the synchronous stack did
    qAsync,      \* what the call on the asynchronous stack did
    \* ---- RequestsPatchSession on a shared session (pipeline/requests.py) ----
    tSession,    \* the session: max_redirects, trust_env, max_retries of the two default adapters
    tBefore,     \* the session as it was before any call
    tKwargs,     \* per call: the per-call overrides given to send
    tPc,         \* per call: idle, patched, sent, done
    tOld,        \* per call: the old values send saved
    tSeen,       \* per call: the session settings its next.send worked with
    tRaised,     \* per call: next.send raised
    \* ---- The call handed to the HTTP engine (pipeline/requests.py, async_requests.py, aiohttp.py, universal.py) ----
    eSender,     \* the sender class that ends the pipeline
    eConfig,     \* config.headers of a RequestsHTTPSender
    ePolicies,   \* the header policies of the pipeline, in order
    eHeaders,    \* request.headers
    eBody,       \* the body the request carries: none, data or files
    ePc,         \* off, idle, policies, done
    eAt,         \* the index of the policy whose on_request runs next
    eCall        \* the headers and the body given to session.request

pipeVars == <<pPolicies, pNext, pPc, pCur, pStack, pLog, pSent, pResult,
              pContext, pContexts, pRuns, pCtxSession, pSendSession, pSwaps>>
credVars == <<cImpl, cSignInject, cRefreshInject, cPc, cLog, cSession, cOutcome>>
retryVars == <<rTotal, rConfigured, rPc, rMethod, rBudget, rRemaining, rAttempts, rRetried,
               rLast, rOutcome, rCalls, rEarlier>>
redirVars == <<dAllow, dMax, dPc, dSent, dAnswers, dChecked, dOutcome, dCalls>>
streamVars == <<sImpl, sConsumed, sCallback, sBlock, sBody, sRest, sEnd, sPc, sLog,
                sLast, sPulls>>
pagedVars == <<gGetNext, gNextLink, gCurrentPage, gIterIndex, gPc, gVia, gStart, gPure,
               gOut, gFetched, gLast>>
pollerVars == <<lImpl, lSteps, lFinal, lBreaks, lStatus, lRuns, lDirect, lQueries, lPc,
                lCallbacks, lCalled, lWaiting, lResult, lDeserialized>>
senderVars == <<hKind, hPc, hEnters, hExits, hCloses, hSessionCloses, hPools, hBuilt>>
asyncVars == <<aPython, aPolicies, aPc, aCur, aStack, aLog, aSent, aResult, aRuns,
               aEnters, aExits, aSenderExits>>
clientVars == <<kKeepAlive, kPreset, kInject, kPc, kScope, kAtEnter, kDriver, kSessions,
                kReqCtx, kLast, kSends, kEnters>>
chainVars == <<nPc, nNext, nChains, nWired, nRun, nAt, nVisited>>
stackVars == <<qPolicy, qSignInject, qRefreshInject, qFirst, qRefresh, qSecond, qPc, qSync,
               qAsync>>
patchVars == <<tSession, tBefore, tKwargs, tPc, tOld, tSeen, tRaised>>
engineVars == <<eSender, eConfig, ePolicies, eHeaders, eBody, ePc, eAt, eCall>>
vars == <<pipeVars, credVars, retryVars, redirVars, streamVars, pagedVars, pollerVars,
          senderVars, asyncVars, clientVars, chainVars, stackVars, patchVars, engineVars>>
notPipe == <<credVars, retryVars, redirVars, streamVars, pagedVars, pollerVars, senderVars,
    asyncVars, clientVars, chainVars, stackVars, patchVars, engineVars>>
notCred == <<pipeVars, retryVars, redirVars, streamVars, pagedVars, pollerVars, senderVars,
    asyncVars, clientVars, chainVars, stackVars, patchVars, engineVars>>
notRetry == <<pipeVars, credVars, redirVars, streamVars, pagedVars, pollerVars, senderVars,
    asyncVars, clientVars, chainVars, stackVars, patchVars, engineVars>>
notRedir == <<pipeVars, credVars, retryVars, streamVars, pagedVars, pollerVars, senderVars,
    asyncVars, clientVars, chainVars, stackVars, patchVars, engineVars>>
notStream == <<pipeVars, credVars, retryVars, redirVars, pagedVars, pollerVars, senderVars,
    asyncVars, clientVars, chainVars, stackVars, patchVars, engineVars>>
notPaged == <<pipeVars, credVars, retryVars, redirVars, streamVars, pollerVars, senderVars,
    asyncVars, clientVars, chainVars, stackVars, patchVars, engineVars>>
notPoller == <<pipeVars, credVars, retryVars, redirVars, streamVars, pagedVars, senderVars,
    asyncVars, clientVars, chainVars, stackVars, patchVars, engineVars>>
notSender == <<pipeVars, credVars, retryVars, redirVars, streamVars, pagedVars, pollerVars,
    asyncVars, clientVars, chainVars, stackVars, patchVars, engineVars>>
notAsync == <<pipeVars, credVars, retryVars, redirVars, streamVars, pagedVars, pollerVars,
    senderVars, clientVars, chainVars, stackVars, patchVars, engineVars>>
notClient == <<pipeVars, credVars, retryVars, redirVars, streamVars, pagedVars, pollerVars,
    senderVars, asyncVars, chainVars, stackVars, patchVars, engineVars>>
notChains == <<pipeVars, credVars, retryVars, redirVars, streamVars, pagedVars, pollerVars,
    senderVars, asyncVars, clientVars, stackVars, patchVars, engineVars>>
notStacks == <<pipeVars, credVars, retryVars, redirVars, streamVars, pagedVars, pollerVars,
    senderVars, asyncVars, clientVars, chainVars, patchVars, engineVars>>
notPatch == <<pipeVars, credVars, retryVars, redirVars, streamVars, pagedVars, pollerVars,
    senderVars, asyncVars, clientVars, chainVars, stackVars, engineVars>>
notEngine == <<pipeVars, credVars, retryVars, redirVars, streamVars, pagedVars, pollerVars,
    senderVars, asyncVars, clientVars, chainVars, stackVars, patchVars>>

----------------------------------------------------------------------------
(* Bounds of the model *)

MaxPolicies == 3     \* longest policy list given to a Pipeline
MaxRuns == 2         \* run() calls made on one Pipeline
MaxBudget == 3       \* largest retry budget the configuration is given
MaxCalls == 2        \* calls made on one client
MaxRedirectLimit == 2 \* largest max_redirects the session is given
MaxBody == 3         \* longest response body streamed
MaxBlock == 2        \* largest block size of a download
MaxPulls == 5        \* pulls one consumer makes on a sequence
MaxPages == 3        \* pages the fetch operation can serve
MaxSteps == 2        \* run steps a polling method needs to finish
MaxScopes == 2       \* times a Pipeline scope is entered, and times close() is called
MaxBuilds == 3       \* build_context() calls made on one sender
MaxChain == 2        \* longest policy list given to an AsyncPipeline
MaxSends == 2        \* send() calls made on the clients of one Configuration
MaxPipelines == 2    \* Pipelines made from the same policy objects
MaxHeaderPolicies == 2   \* header policies in one pipeline

----------------------------------------------------------------------------
(* Helpers *)

Range(s) == {s[i] : i \in DOMAIN s}

RECURSIVE Reverse(_)
Reverse(s) == IF s = <<>> THEN <<>> ELSE Append(Reverse(Tail(s)), Head(s))

\* The sequences of distinct elements of S of length at most n.
RECURSIVE DistinctSeqs(_, _)
DistinctSeqs(S, n) ==
    IF n = 0 THEN {<<>>}
    ELSE LET shorter == DistinctSeqs(S, n - 1)
         IN  shorter \cup UNION {{Append(q, x) : x \in S \ Range(q)} : q \in shorter}

CountOf(s, kind) == Cardinality({i \in DOMAIN s : s[i][1] = kind})

NoOutcome == [kind |-> "none"]
Returned(r) == [kind |-> "response", response |-> r]
Raised(class, cause) == [kind |-> "raise", class |-> class, cause |-> cause]

----------------------------------------------------------------------------
(* Pipeline: msrest/pipeline/__init__.py *)

PolicyIds == {"A", "B", "C", "D"}

\* The policies whose class defines on_exception, raising NotImplementedError,
\* as SwapExec of tests/test_pipeline.py does; the others are plain
\* SansIOHTTPPolicy objects.
DefinesOnException(policy) == policy = "D"
Responses == {"r1", "r2"}
Sender == 0

\* Pipeline.__init__, lines 155-158: runner index gets runner index+1 as next,
\* the last runner gets the sender.
ImplNextSkipping(index, n) == IF index + 1 < n THEN index + 2 ELSE Sender
ImplNext(index, n) == IF index < n THEN index + 1 ELSE Sender

\* Pipeline.__init__: one _SansIOHTTPPolicyRunner per SansIOHTTPPolicy, wired in order.
WireChain(policies) == [index \in 1..Len(policies) |-> ImplNext(index, Len(policies))]

\* Pipeline.run, line 172: the first node is the first runner, or the sender.
FirstNode(policies) == IF Len(policies) > 0 THEN 1 ELSE Sender

\* BasicRequestsHTTPSender.__init__, line 196: self.session = requests.Session()
SenderSession == "sender.session"
\* The session credentials.signed_session() creates when it is given none.
CredentialsSession == "credentials.session"

\* Pipeline.run, lines 170-171: request.pipeline_context = the context
\* self._sender.build_context() returns, which holds the sender's session.
RunContextSessionKept(previous) == IF previous = "none" THEN SenderSession ELSE previous
RunContextSession(previous) == SenderSession

PipeOff ==
    /\ pPolicies = <<>> /\ pNext = <<>> /\ pPc = "off" /\ pCur = Sender
    /\ pStack = <<>> /\ pLog = <<>> /\ pSent = "none" /\ pResult = NoOutcome
    /\ pContext = 0 /\ pContexts = 0 /\ pRuns = 0
    /\ pCtxSession = "none" /\ pSendSession = "none" /\ pSwaps = 0

PipeIdle ==
    /\ pPolicies \in DistinctSeqs(PolicyIds, MaxPolicies)
    /\ pNext = WireChain(pPolicies)
    /\ pPc = "idle" /\ pCur = Sender /\ pStack = <<>> /\ pLog = <<>>
    /\ pSent = "none" /\ pResult = NoOutcome
    /\ pContext = 0 /\ pContexts = 0 /\ pRuns = 0
    /\ pCtxSession = "none" /\ pSendSession = "none" /\ pSwaps = 0

\* Pipeline.run: build the context, attach it, enter the first node.
Run ==
    /\ pPc \in {"idle", "done", "raised"}
    /\ pRuns < MaxRuns
    /\ pContexts' = pContexts + 1
    /\ pContext' = pContexts + 1
    /\ pCur' = FirstNode(pPolicies)
    /\ pPc' = "call"
    /\ pStack' = <<>> /\ pLog' = <<>> /\ pSent' = "none" /\ pResult' = NoOutcome
    /\ pRuns' = pRuns + 1
    /\ pCtxSession' = RunContextSession(pCtxSession)
    /\ pSendSession' = "none"
    /\ UNCHANGED <<pPolicies, pNext, pSwaps>>
    /\ UNCHANGED notPipe

\* _SansIOHTTPPolicyRunner.send, lines 129-130: on_request, then next.send.
RunnerOnRequest ==
    /\ pPc = "call" /\ pCur # Sender
    /\ pLog' = Append(pLog, <<"on_request", pPolicies[pCur]>>)
    /\ pStack' = Append(pStack, pCur)
    /\ pCur' = pNext[pCur]
    /\ UNCHANGED <<pPolicies, pNext, pPc, pSent, pResult, pContext, pContexts, pRuns,
                   pCtxSession, pSendSession, pSwaps>>
    /\ UNCHANGED notPipe

\* A policy's send assigns request.pipeline_context.session before it calls
\* next.send, as the credentials policy does for credentials that take no
\* session (pipeline/async_requests.py, lines 106 and 121).
PolicySwapSession ==
    /\ pPc = "call" /\ pStack # <<>> /\ pCtxSession # CredentialsSession
    /\ pCtxSession' = CredentialsSession
    /\ pSwaps' = pSwaps + 1
    /\ UNCHANGED <<pPolicies, pNext, pPc, pCur, pStack, pLog, pSent, pResult, pContext,
                   pContexts, pRuns, pSendSession>>
    /\ UNCHANGED notPipe

\* HTTPSender.send: the transport answers with a response ...
SenderSend ==
    /\ pPc = "call" /\ pCur = Sender
    /\ \E r \in Responses :
        /\ pSent' = r
        /\ pLog' = Append(pLog, <<"send", r>>)
    /\ pPc' = "return"
    /\ pSendSession' = pCtxSession
    /\ UNCHANGED <<pPolicies, pNext, pCur, pStack, pResult, pContext, pContexts, pRuns,
                   pCtxSession, pSwaps>>
    /\ UNCHANGED notPipe

\* ... or raises; no runner catches, so the exception reaches the caller of run.
SenderRaise ==
    /\ pPc = "call" /\ pCur = Sender
    /\ pLog' = Append(pLog, <<"send", "raise">>)
    /\ pPc' = "raised"
    /\ pStack' = <<>>
    /\ pResult' = Raised("Exception", "none")
    /\ pSendSession' = pCtxSession
    /\ UNCHANGED <<pPolicies, pNext, pCur, pSent, pContext, pContexts, pRuns,
                   pCtxSession, pSwaps>>
    /\ UNCHANGED notPipe

\* _SansIOHTTPPolicyRunner.send, lines 131-132: on_response, then return response.
RunnerOnResponse ==
    /\ pPc = "return" /\ pStack # <<>>
    /\ LET index == pStack[Len(pStack)]
       IN  /\ pLog' = Append(pLog, <<"on_response", pPolicies[index]>>)
           /\ pStack' = SubSeq(pStack, 1, Len(pStack) - 1)
    /\ UNCHANGED <<pPolicies, pNext, pPc, pCur, pSent, pResult, pContext, pContexts, pRuns,
                   pCtxSession, pSendSession, pSwaps>>
    /\ UNCHANGED notPipe

\* Pipeline.run, line 173: return what the first node returned.
RunReturn ==
    /\ pPc = "return" /\ pStack = <<>>
    /\ pResult' = Returned(pSent)
    /\ pPc' = "done"
    /\ UNCHANGED <<pPolicies, pNext, pCur, pStack, pLog, pSent, pContext, pContexts, pRuns,
                   pCtxSession, pSendSession, pSwaps>>
    /\ UNCHANGED notPipe

----------------------------------------------------------------------------
(* Credential protocol: RequestsCredentialsPolicy.send (pipeline/requests.py), *)
(* ServiceClient.send (service_client.py), AsyncServiceClientMixin.async_send  *)
(* (async_client.py), AsyncRequestsCredentialsPolicy.send                      *)
(* (pipeline/async_requests.py).                                               *)

Impls == {"policy", "client", "async_client", "async_policy"}

\* What session.request can raise: the two oauthlib auth rejections, another
\* oauthlib OAuth2Error, a requests.RequestException, anything else.
ExcClasses == {"InvalidGrantError", "OAuthTokenExpiredError", "OAuth2Error",
               "RequestException", "ValueError"}

Exc(class) == [class |-> class, cause |-> "none"]
Wrap(class, x) == [class |-> class, cause |-> x.class]

\* except (oauth2.rfc6749.errors.InvalidGrantError, oauth2.rfc6749.errors.TokenExpiredError)
IsAuthRejection(class) == class \in {"InvalidGrantError", "OAuthTokenExpiredError"}

\* except (requests.RequestException, oauth2.rfc6749.errors.OAuth2Error): both
\* auth rejections are OAuth2Error subclasses; msrest's own TokenExpiredError and
\* ClientRequestError are not.
CatchesEverything(class) == TRUE
CatchesOAuth2Only(class) ==
    class \in {"OAuth2Error", "InvalidGrantError", "OAuthTokenExpiredError"}
IsRequestOrOAuth2Error(class) ==
    class \in {"RequestException", "OAuth2Error", "InvalidGrantError", "OAuthTokenExpiredError"}

\* The outer handler: wrap into ClientRequestError, or let the exception pass.
OuterHandler(x) ==
    IF IsRequestOrOAuth2Error(x.class) THEN Wrap("ClientRequestError", x) ELSE x

\* The handler around refresh and resend: an auth rejection becomes msrest's
\* TokenExpiredError, which the outer handler does not catch.
InnerHandler(x) ==
    IF IsAuthRejection(x.class) THEN Wrap("TokenExpiredError", x) ELSE OuterHandler(x)

\* What reaches the protocol when the transport raises: AsyncBasicRequestsHTTPSender.send
\* wraps a RequestException itself, the other senders raise it as it is.
TransportRaise(impl, class) ==
    IF impl = "async_policy" /\ class = "RequestException"
    THEN Wrap("ClientRequestError", Exc(class))
    ELSE Exc(class)

\* After the first send raised x: refresh on an auth rejection, else give up.
AfterFirstSendNoRefresh(x) == IF IsAuthRejection(x.class) THEN "send2" ELSE "done"
AfterFirstSend(x) == IF IsAuthRejection(x.class) THEN "refresh" ELSE "done"

\* After refresh_session returned or raised: resend only if it returned.
AfterRefreshSwallowing(result) == "send2"
AfterRefresh(result) == IF result = "ok" THEN "send2" ELSE "done"

\* After the resend raised x: the call ends, whatever x is.
AfterResendLooping(x) == IF IsAuthRejection(x.class) THEN "refresh" ELSE "done"
AfterResend(x) == "done"

\* What the call raises when credentials lack session injection (TypeError):
\* RequestsCredentialsPolicy falls back on self.creds, an attribute it never sets
\* (it sets self._creds); async_send re-raises; the others use a new session.
NoInjection(impl) ==
    CASE impl = "policy" -> Exc("AttributeError")
      [] impl = "async_client" -> Exc("TypeError")
      [] OTHER -> Exc("none")

CredOff ==
    /\ cImpl = "policy" /\ cSignInject = TRUE /\ cRefreshInject = TRUE
    /\ cPc = "off" /\ cLog = <<>> /\ cSession = "context" /\ cOutcome = NoOutcome

CredIdle ==
    /\ cImpl \in Impls /\ cSignInject \in BOOLEAN /\ cRefreshInject \in BOOLEAN
    /\ cPc = "sign" /\ cLog = <<>> /\ cSession = "context" /\ cOutcome = NoOutcome

\* creds.signed_session(session), with the TypeError fallback.
CredSign ==
    /\ cPc = "sign"
    /\ IF cSignInject \/ NoInjection(cImpl).class = "none"
       THEN /\ cPc' = "send1"
            /\ cSession' = IF cSignInject THEN cSession ELSE "credentials"
            /\ cOutcome' = cOutcome
       ELSE /\ cPc' = "done"
            /\ cOutcome' = Raised(NoInjection(cImpl).class, "none")
            /\ cSession' = cSession
    /\ cLog' = Append(cLog, <<"sign", IF cSignInject THEN "injected" ELSE "TypeError">>)
    /\ UNCHANGED <<cImpl, cSignInject, cRefreshInject>>
    /\ UNCHANGED notCred

\* The first send: a response is returned, an exception goes to the handlers.
CredFirstSend ==
    /\ cPc = "send1"
    /\ \E result \in Responses \cup ExcClasses :
        /\ cLog' = Append(cLog, <<"send", result>>)
        /\ IF result \in Responses
           THEN cPc' = "done" /\ cOutcome' = Returned(result)
           ELSE LET x == TransportRaise(cImpl, result)
                IN  /\ cPc' = AfterFirstSend(x)
                    /\ cOutcome' = IF cPc' = "done"
                                   THEN Raised(OuterHandler(x).class, OuterHandler(x).cause)
                                   ELSE cOutcome
    /\ UNCHANGED <<cImpl, cSignInject, cRefreshInject, cSession>>
    /\ UNCHANGED notCred

\* creds.refresh_session(session), with the TypeError fallback.
CredRefresh ==
    /\ cPc = "refresh"
    /\ IF ~cRefreshInject /\ NoInjection(cImpl).class # "none"
       THEN /\ cLog' = Append(cLog, <<"refresh_rejected", "TypeError">>)
            /\ cPc' = "done"
            /\ cOutcome' = Raised(NoInjection(cImpl).class, "none")
            /\ cSession' = cSession
       ELSE \E result \in {"ok"} \cup ExcClasses :
            /\ cLog' = IF cRefreshInject
                       THEN Append(cLog, <<"refresh", result>>)
                       ELSE cLog \o << <<"refresh_rejected", "TypeError">>, <<"refresh", result>> >>
            /\ cSession' = IF cRefreshInject THEN cSession ELSE "credentials"
            /\ cPc' = AfterRefresh(result)
            /\ cOutcome' = IF cPc' = "done"
                           THEN Raised(InnerHandler(Exc(result)).class, InnerHandler(Exc(result)).cause)
                           ELSE cOutcome
    /\ UNCHANGED <<cImpl, cSignInject, cRefreshInject>>
    /\ UNCHANGED notCred

\* The send made after the refresh.
CredResend ==
    /\ cPc = "send2"
    /\ \E result \in Responses \cup ExcClasses :
        /\ cLog' = Append(cLog, <<"send", result>>)
        /\ IF result \in Responses
           THEN cPc' = "done" /\ cOutcome' = Returned(result)
           ELSE LET x == TransportRaise(cImpl, result)
                IN  /\ cPc' = AfterResend(x)
                    /\ cOutcome' = IF cPc' = "done"
                                   THEN Raised(InnerHandler(x).class, InnerHandler(x).cause)
                                   ELSE cOutcome
    /\ UNCHANGED <<cImpl, cSignInject, cRefreshInject, cSession>>
    /\ UNCHANGED notCred

----------------------------------------------------------------------------
(* Retry: ClientRetryPolicy (pipeline/requests.py) configures a urllib3 Retry, *)
(* RequestsHTTPSender._init_session installs it as max_retries of the          *)
(* session's adapters.  The loop itself is urllib3's: an answer qualifies when *)
(* Retry.is_retry(method, status) holds; Retry.increment then returns a NEW    *)
(* Retry with total - 1 and raises MaxRetryError when that total is negative,  *)
(* which requests raises as RetryError, a RequestException.  Retry-After       *)
(* headers and connection errors are not part of this model.                   *)

\* ClientRetryPolicy.__init__: self.policy.total = 3
DefaultRetryTotal == 3

\* safe_codes = [i for i in range(500) if i != 408] + [501, 505]
SafeCodes == ((0..499) \ {408}) \cup {501, 505}

\* retry_codes = [i for i in range(999) if i not in self.safe_codes]
RetryCodesEveryServerError == 500..998
RetryCodes == {i \in 0..998 : i \notin SafeCodes}

\* self.policy.method_whitelist
MethodWhitelistWithMerge ==
    {"HEAD", "TRACE", "GET", "PUT", "OPTIONS", "DELETE", "POST", "PATCH", "MERGE"}
MethodWhitelist == {"HEAD", "TRACE", "GET", "PUT", "OPTIONS", "DELETE", "POST", "PATCH"}

\* The methods of the requests ServiceClient builds: get, put, post, head,
\* patch, delete, merge.
Methods == {"GET", "PUT", "POST", "HEAD", "PATCH", "DELETE", "MERGE"}

\* The statuses the server answers with in this model.
StatusSample == {200, 202, 301, 404, 408, 499, 500, 501, 502, 503, 504, 505, 506, 999}

\* urllib3 Retry.is_retry with the policy's status_forcelist and method_whitelist.
IsRetry(method, status) == method \in MethodWhitelist /\ status \in RetryCodes

\* The adapters hold the configuration's Retry object itself; urllib3 never
\* changes it (increment works on a copy), so a retry leaves it as it is.
InstalledDecremented(total) == total - 1
InstalledAfterRetry(total) == total

RetryOff ==
    /\ rTotal = DefaultRetryTotal /\ rConfigured = DefaultRetryTotal /\ rPc = "off"
    /\ rMethod = "GET" /\ rBudget = 0 /\ rRemaining = 0 /\ rAttempts = 0 /\ rRetried = 0
    /\ rLast = 0 /\ rOutcome = NoOutcome /\ rCalls = 0 /\ rEarlier = 0

\* Configuration.__init__ and ServiceClient.__init__: the default policy is installed.
RetryIdle ==
    /\ rTotal = DefaultRetryTotal /\ rConfigured = DefaultRetryTotal /\ rPc = "idle"
    /\ rMethod = "GET" /\ rBudget = 0 /\ rRemaining = 0 /\ rAttempts = 0 /\ rRetried = 0
    /\ rLast = 0 /\ rOutcome = NoOutcome /\ rCalls = 0 /\ rEarlier = 0

\* ClientRetryPolicy.retries setter, between two calls.
SetRetries ==
    /\ rPc \in {"idle", "done"}
    /\ \E value \in 0..MaxBudget :
        /\ value # rConfigured
        /\ rTotal' = value /\ rConfigured' = value
    /\ UNCHANGED <<rPc, rMethod, rBudget, rRemaining, rAttempts, rRetried, rLast,
                   rOutcome, rCalls, rEarlier>>
    /\ UNCHANGED notRetry

\* ServiceClient.send -> session.request: the adapter hands its max_retries to
\* urllib3, which starts the call's retry state from it.
RetryStartCall ==
    /\ rPc \in {"idle", "done"}
    /\ rCalls < MaxCalls
    /\ \E method \in Methods : rMethod' = method
    /\ rBudget' = rConfigured /\ rRemaining' = rTotal
    /\ rAttempts' = 0 /\ rRetried' = 0 /\ rLast' = 0 /\ rOutcome' = NoOutcome
    /\ rPc' = "attempt"
    /\ rCalls' = rCalls + 1
    /\ rEarlier' = rEarlier + rRetried
    /\ UNCHANGED <<rTotal, rConfigured>>
    /\ UNCHANGED notRetry

\* One request on the wire and the server's answer.
RetryAttempt ==
    /\ rPc = "attempt"
    /\ \E status \in StatusSample :
        /\ rLast' = status
        /\ rAttempts' = rAttempts + 1
        /\ IF IsRetry(rMethod, status)
           THEN /\ rRetried' = rRetried + 1
                /\ rTotal' = InstalledAfterRetry(rTotal)
                /\ IF rRemaining - 1 < 0
                   THEN /\ rPc' = "done"
                        /\ rOutcome' = Raised(OuterHandler(Exc("RequestException")).class,
                                              OuterHandler(Exc("RequestException")).cause)
                        /\ rRemaining' = rRemaining
                   ELSE /\ rPc' = "attempt"
                        /\ rOutcome' = rOutcome
                        /\ rRemaining' = rRemaining - 1
           ELSE /\ rPc' = "done"
                /\ rOutcome' = Returned(status)
                /\ UNCHANGED <<rRetried, rRemaining, rTotal>>
    /\ UNCHANGED <<rConfigured, rMethod, rBudget, rCalls, rEarlier>>
    /\ UNCHANGED notRetry

----------------------------------------------------------------------------
(* Redirect: ClientRedirectPolicy.check_redirect and the resolver that         *)
(* RequestsHTTPSender._init_session patches into the session                   *)
(* (pipeline/requests.py).  The wrapped resolver is consulted once per call,   *)
(* with the first answer and the original request; when it attempts, the       *)
(* session's own redirect logic (requests) runs: it follows an answer that     *)
(* carries a Location header and one of the redirect statuses, rebuilds the    *)
(* method, and raises TooManyRedirects, a RequestException, on the redirect    *)
(* after max_redirects have been followed (tests/test_runtime.py,              *)
(* TestRedirect).                                                              *)

\* ClientRedirectPolicy.check_redirect
CheckRedirectAnyNonGet(status, method) ==
    ~(status \in {301, 302, 307} /\ method \notin {"GET", "HEAD"})
CheckRedirect(status, method) ==
    IF status \in {301, 302} /\ method \notin {"GET", "HEAD"} THEN FALSE ELSE TRUE

\* requests: Response.is_redirect, as the tests pin it: a 303 or 307 without a
\* Location header and a 305 with one are returned, not followed.
IsRedirect(status, location) == location /\ status \in {301, 302, 303, 307, 308}

\* requests: rebuild_method, as the tests pin it: a 303 turns the follow-up
\* into a GET, a 307 keeps the method.
RebuildMethod(method, status) ==
    IF status \in {302, 303} /\ method # "HEAD" THEN "GET"
    ELSE IF status = 301 /\ method = "POST" THEN "GET"
    ELSE method

\* The statuses the server answers with in this component.
RedirectStatusSample == {200, 301, 302, 303, 305, 307, 308, 404}

RedirOff ==
    /\ dAllow = TRUE /\ dMax = 0 /\ dPc = "off" /\ dSent = <<>> /\ dAnswers = <<>>
    /\ dChecked = FALSE /\ dOutcome = NoOutcome /\ dCalls = 0

\* _init_session: session.max_redirects = int(config.redirect_policy());
\* _configure_send: allow_redirects = bool(config.redirect_policy)
RedirIdle ==
    /\ dAllow \in BOOLEAN /\ dMax \in 0..MaxRedirectLimit /\ dPc = "idle"
    /\ dSent = <<>> /\ dAnswers = <<>> /\ dChecked = FALSE /\ dOutcome = NoOutcome
    /\ dCalls = 0

\* requests: resolve_redirects raises TooManyRedirects when the answers already
\* followed (len(resp.history)) have reached max_redirects; with max_redirects
\* = 2 the third redirect of a chain raises (test_request_redirect_get).
TooManyRedirectsLate(followed, max) == followed > max
TooManyRedirects(followed, max) == followed >= max

\* session.request(method, url, **kwargs): the first request of a call goes
\* out; the history of the call before is gone.
RedirStartCall ==
    /\ dPc \in {"idle", "done"}
    /\ dCalls < MaxCalls
    /\ \E method \in Methods : dSent' = <<method>>
    /\ dPc' = "respond"
    /\ dAnswers' = <<>> /\ dChecked' = FALSE /\ dOutcome' = NoOutcome
    /\ dCalls' = dCalls + 1
    /\ UNCHANGED <<dAllow, dMax>>
    /\ UNCHANGED notRedir

\* The server answers the request in flight.
RedirAnswer ==
    /\ dPc = "respond"
    /\ \E status \in RedirectStatusSample, location \in BOOLEAN :
        dAnswers' = Append(dAnswers, <<status, location>>)
    /\ dPc' = "resolve"
    /\ UNCHANGED <<dAllow, dMax, dSent, dChecked, dOutcome, dCalls>>
    /\ UNCHANGED notRedir

\* Session.send and resolve_redirects: return the answer, follow it, or raise.
RedirResolve ==
    /\ dPc = "resolve"
    /\ LET answer == dAnswers[Len(dAnswers)]
           status == answer[1]
           method == dSent[Len(dSent)]
           followed == Len(dAnswers) - 1
           attempt == /\ dAllow
                      /\ (dChecked \/ CheckRedirect(status, dSent[1]))
       IN  /\ dChecked' = (dChecked \/ dAllow)
           /\ IF ~attempt \/ ~IsRedirect(status, answer[2])
              THEN /\ dPc' = "done"
                   /\ dOutcome' = Returned(status)
                   /\ dSent' = dSent
              ELSE IF TooManyRedirects(followed, dMax)
              THEN /\ dPc' = "done"
                   /\ dOutcome' = Raised(OuterHandler(Exc("RequestException")).class,
                                         OuterHandler(Exc("RequestException")).cause)
                   /\ dSent' = dSent
              ELSE /\ dPc' = "respond"
                   /\ dOutcome' = dOutcome
                   /\ dSent' = Append(dSent, RebuildMethod(method, status))
    /\ UNCHANGED <<dAllow, dMax, dAnswers, dCalls>>
    /\ UNCHANGED notRedir

----------------------------------------------------------------------------
(* Streaming download: RequestsClientResponse.stream_download                  *)
(* (pipeline/requests.py), ServiceClient.stream_download (service_client.py),  *)
(* StreamDownloadGenerator (pipeline/async_requests.py and async_client.py,    *)
(* the same code twice) and AioHttpClientResponse.stream_download              *)
(* (pipeline/aiohttp.py).  The source, response.iter_content(block) or         *)
(* resp.content.read(block), hands out the body in non-empty chunks of at most *)
(* block bytes and then signals its end, by StopIteration or by an empty       *)
(* chunk.  One pull of the consumer is one action.  The log holds, in order,   *)
(* <<"fetch", chunk>> and <<"stop">> for what the source handed out,           *)
(* <<"callback", chunk, response>> for a call of the progress callback,        *)
(* <<"raised", chunk>> when that call raised, <<"yield", chunk>> for a chunk   *)
(* handed to the consumer and <<"close">> for response.close().                *)

StreamImpls == {"response", "client", "asyncio", "aiohttp"}
Bytes == {"a", "b", "c", "d"}
Bodies == DistinctSeqs(Bytes, MaxBody)
TheResponse == "response"

\* A callable callback was given: "if callback and callable(callback)".
HasCallback(callback) == callback = "given"

\* The lengths the next chunk can have: iter_content over a consumed body
\* slices it exactly (iter_slices); a read from the wire may come short.
ChunkLens(rest, block, consumed) ==
    LET most == IF Len(rest) < block THEN Len(rest) ELSE block
    IN  IF consumed THEN {most} ELSE 1..most

\* What the source hands out when the body is used up.
EndFetch(end) == IF end = "stop" THEN <<"stop">> ELSE <<"fetch", <<>>>>

\* contextlib.closing(response) wraps the loop: RequestsClientResponse always,
\* ServiceClient.stream_download only when the content was not consumed yet.
InClosing(impl, consumed) == impl = "response" \/ (impl = "client" /\ ~consumed)

\* ServiceClient.stream_download, line 290: data.close() after the loop.
CloseAfterLoop(impl) == IF impl = "client" THEN << <<"close">> >> ELSE <<>>

\* What leaving the generator's frame does: the closing context closes.
OnFrameExit(impl, consumed) ==
    IF InClosing(impl, consumed) THEN << <<"close">> >> ELSE <<>>

\* StreamDownloadGenerator.__anext__, "except _MsrestStopIteration":
\* response.close(), then StopAsyncIteration.
AnextOnStopKeepingOpen == <<>>
AnextOnStop == << <<"close">> >>

\* StreamDownloadGenerator.__anext__, "except Exception": response.close(),
\* then the exception is raised again.
AnextOnExceptionKeepingOpen == <<>>
AnextOnException == << <<"close">> >>

StreamOff ==
    /\ sImpl = "response" /\ sConsumed = FALSE /\ sCallback = "none" /\ sBlock = 1
    /\ sBody = <<>> /\ sRest = <<>> /\ sEnd = "stop" /\ sPc = "off" /\ sLog = <<>>
    /\ sLast = NoOutcome /\ sPulls = 0

\* stream_download(callback, chunk_size) has been called on a response: the
\* generator, or the iterator object, exists and nothing has run yet.
StreamFresh ==
    /\ sImpl \in StreamImpls
    /\ sConsumed \in (IF sImpl = "aiohttp" THEN {FALSE} ELSE BOOLEAN)
    /\ sCallback \in {"none", "given"}
    /\ sBlock \in 1..MaxBlock
    /\ sBody \in Bodies /\ sRest = sBody
    /\ sEnd \in (IF sImpl = "aiohttp" THEN {"empty"} ELSE {"stop", "empty"})
    /\ sPc = "fresh" /\ sLog = <<>> /\ sLast = NoOutcome /\ sPulls = 0

\* One next() on a generator function whose loop is
\*     for chunk in response.iter_content(block):
\*         if not chunk: break
\*         if callback and callable(callback): callback(chunk, response=response)
\*         yield chunk
\* in RequestsClientResponse.stream_download and, twice, in
\* ServiceClient.stream_download.  A finished generator raises StopIteration
\* and runs nothing.
GeneratorStreamNext ==
    /\ sImpl \in {"response", "client"} /\ sPc \in {"fresh", "open", "ended"} /\ sPulls < MaxPulls
    /\ sPulls' = sPulls + 1
    /\ IF sPc = "ended"
       THEN /\ sLast' = Raised("StopIteration", "none")
            /\ UNCHANGED <<sRest, sPc, sLog>>
       ELSE IF sRest = <<>>
       THEN /\ sLog' = sLog \o <<EndFetch(sEnd)>> \o OnFrameExit(sImpl, sConsumed)
                            \o CloseAfterLoop(sImpl)
            /\ sPc' = "ended"
            /\ sLast' = Raised("StopIteration", "none")
            /\ sRest' = sRest
       ELSE \E n \in ChunkLens(sRest, sBlock, sConsumed), raises \in BOOLEAN :
            LET chunk == SubSeq(sRest, 1, n)
                called == IF HasCallback(sCallback)
                          THEN << <<"callback", chunk, TheResponse>> >> ELSE <<>>
            IN  /\ raises => HasCallback(sCallback)
                /\ sRest' = SubSeq(sRest, n + 1, Len(sRest))
                /\ IF raises
                   THEN /\ sLog' = sLog \o << <<"fetch", chunk>> >> \o called
                                        \o << <<"raised", chunk>> >>
                                        \o OnFrameExit(sImpl, sConsumed)
                        /\ sPc' = "ended"
                        /\ sLast' = Raised("CallbackError", "none")
                   ELSE /\ sLog' = sLog \o << <<"fetch", chunk>> >> \o called
                                        \o << <<"yield", chunk>> >>
                        /\ sPc' = "open"
                        /\ sLast' = Returned(chunk)
    /\ UNCHANGED <<sImpl, sConsumed, sCallback, sBlock, sBody, sEnd>>
    /\ UNCHANGED notStream

\* StreamDownloadGenerator.__anext__: every pull asks the source again.
AsyncStreamNext ==
    /\ sImpl = "asyncio" /\ sPc \in {"fresh", "open", "ended"} /\ sPulls < MaxPulls
    /\ sPulls' = sPulls + 1
    /\ IF sRest = <<>>
       THEN /\ sLog' = sLog \o <<EndFetch(sEnd)>> \o AnextOnStop
            /\ sPc' = "ended"
            /\ sLast' = Raised("StopAsyncIteration", "none")
            /\ sRest' = sRest
       ELSE \E n \in ChunkLens(sRest, sBlock, sConsumed), raises \in BOOLEAN :
            LET chunk == SubSeq(sRest, 1, n)
                called == IF HasCallback(sCallback)
                          THEN << <<"callback", chunk, TheResponse>> >> ELSE <<>>
            IN  /\ raises => HasCallback(sCallback)
                /\ sRest' = SubSeq(sRest, n + 1, Len(sRest))
                /\ sPc' = "open"
                /\ IF raises
                   THEN /\ sLog' = sLog \o << <<"fetch", chunk>> >> \o called
                                        \o << <<"raised", chunk>> >>
                                        \o AnextOnException
                        /\ sLast' = Raised("CallbackError", "none")
                   ELSE /\ sLog' = sLog \o << <<"fetch", chunk>> >> \o called
                                        \o << <<"yield", chunk>> >>
                        /\ sLast' = Returned(chunk)
    /\ UNCHANGED <<sImpl, sConsumed, sCallback, sBlock, sBody, sEnd>>
    /\ UNCHANGED notStream

RECURSIVE Concat(_)
Concat(chunks) == IF chunks = <<>> THEN <<>> ELSE Head(chunks) \o Concat(Tail(chunks))

\* The coroutine ran to its end and returned None.
Completed == [kind |-> "completed"]

\* The ways content.read(block) can cut a body into non-empty chunks.
RECURSIVE Chunkings(_, _)
Chunkings(rest, block) ==
    IF rest = <<>> THEN {<<>>}
    ELSE UNION {{<<SubSeq(rest, 1, n)>> \o tail :
                    tail \in Chunkings(SubSeq(rest, n + 1, Len(rest)), block)} :
                n \in ChunkLens(rest, block, FALSE)}

\* What the loop of AioHttpClientResponse.stream_download logs for the chunks
\* it reads: callback(chunk, resp) for each, and no yield.
RECURSIVE AioHttpLoop(_)
AioHttpLoop(chunks) ==
    IF chunks = <<>> THEN <<>>
    ELSE << <<"fetch", Head(chunks)>>, <<"callback", Head(chunks), TheResponse>> >>
         \o AioHttpLoop(Tail(chunks))

\* Pulling on what AioHttpClientResponse.stream_download returned: the inner
\* "async def" holds no yield, so the object is a coroutine and has no
\* __aiter__/__anext__; the pull fails with TypeError and nothing has run.
AioHttpStreamNext ==
    /\ sImpl = "aiohttp" /\ sPc \in {"fresh", "ended"} /\ sPulls < MaxPulls
    /\ sPulls' = sPulls + 1
    /\ sLast' = Raised("TypeError", "none")
    /\ UNCHANGED <<sImpl, sConsumed, sCallback, sBlock, sBody, sRest, sEnd, sPc, sLog>>
    /\ UNCHANGED notStream

\* Awaiting it instead runs the loop to its end:
\*     while True:
\*         chunk = await resp.content.read(chunk_size)
\*         if not chunk: break
\*         callback(chunk, resp)
\* A callback of None is called all the same (TypeError); the callback may
\* raise at any chunk; nothing is yielded and the response is not closed.
AioHttpStreamAwait ==
    /\ sImpl = "aiohttp" /\ sPc = "fresh"
    /\ \E chunks \in Chunkings(sRest, sBlock), stop \in 0..Len(sRest) :
        /\ stop <= Len(chunks)
        /\ (~HasCallback(sCallback) /\ chunks # <<>>) => stop = 1
        /\ IF stop = 0
           THEN /\ sLog' = sLog \o AioHttpLoop(chunks) \o <<EndFetch(sEnd)>>
                /\ sLast' = Completed
                /\ sRest' = <<>>
           ELSE /\ sLog' = sLog \o (IF HasCallback(sCallback)
                                    THEN AioHttpLoop(SubSeq(chunks, 1, stop))
                                         \o << <<"raised", chunks[stop]>> >>
                                    ELSE << <<"fetch", chunks[1]>> >>)
                /\ sLast' = Raised(IF HasCallback(sCallback) THEN "CallbackError"
                                   ELSE "TypeError", "none")
                /\ sRest' = SubSeq(sRest, Len(Concat(SubSeq(chunks, 1, stop))) + 1,
                                   Len(sRest))
    /\ sPc' = "ended"
    /\ UNCHANGED <<sImpl, sConsumed, sCallback, sBlock, sBody, sEnd, sPulls>>
    /\ UNCHANGED notStream

\* The consumer stops pulling and releases the sequence.  A generator that is
\* suspended at its yield gets GeneratorExit there and leaves its frame; one
\* that never started, or has finished, runs nothing.  StreamDownloadGenerator
\* and the aiohttp coroutine define nothing that runs on release.
StreamRelease ==
    /\ sPc \in {"fresh", "open", "ended"}
    /\ sPc' = "released"
    /\ sLog' = IF sImpl \in {"response", "client"} /\ sPc = "open"
               THEN sLog \o OnFrameExit(sImpl, sConsumed) ELSE sLog
    /\ UNCHANGED <<sImpl, sConsumed, sCallback, sBlock, sBody, sRest, sEnd, sLast, sPulls>>
    /\ UNCHANGED notStream

----------------------------------------------------------------------------
(* Paging: Paged (msrest/paging.py).  The fetch operation self._get_next maps  *)
(* a page token to a response {nextLink, value}; the deserializer stores       *)
(* nextLink in next_link and value in current_page (FakePaged._attribute_map   *)
(* in test/unittest_paging.py).  The chains of pages are finite: a page names  *)
(* a later page, or None.                                                      *)

\* reset(): self.next_link = ""
FirstPage == ""
\* The token that denotes "no more pages" (Python's None).
None == "None"
TokenNames == <<FirstPage, "page2", "page3", "page4", "page5">>
Tokens == {TokenNames[i] : i \in 1..MaxPages}
TokenIndex(token) == CHOOSE i \in 1..MaxPages : TokenNames[i] = token

\* A value of current_page: a list, or None.
ListOf(items) == [kind |-> "list", items |-> items]
NoneBatch == [kind |-> "none"]
ItemsOf(batch) == IF batch.kind = "list" THEN batch.items ELSE <<>>

\* The elements the pages carry: 'value1.0', 'value1.1', 'value2.0', ...
ElementNames ==
    << <<"value1.0", "value1.1">>, <<"value2.0", "value2.1">>,
       <<"value3.0", "value3.1">>, <<"value4.0", "value4.1">>,
       <<"value5.0", "value5.1">> >>

\* The responses the fetch operation can give: page i names a later page or
\* None as nextLink and carries None, an empty list or its two elements.
LinkChoices ==
    {l \in [1..MaxPages -> Tokens \cup {None}] :
        \A i \in 1..MaxPages : l[i] = None \/ TokenIndex(l[i]) > i}
ValueKinds == {"none", "empty", "elements"}
PageValue(i, kind) ==
    IF kind = "none" THEN NoneBatch
    ELSE IF kind = "empty" THEN ListOf(<<>>) ELSE ListOf(ElementNames[i])
FetchFunctions ==
    {[token \in Tokens |->
        [nextLink |-> l[TokenIndex(token)],
         value |-> PageValue(TokenIndex(token), k[TokenIndex(token)])]] :
     l \in LinkChoices, k \in [1..MaxPages -> ValueKinds]}

\* self._derserializer(self, self._response): the attribute map applied to the
\* response sets next_link and current_page.
Deserialized(response) ==
    [next_link |-> response.nextLink, current_page |-> response.value]

\* reset(), lines 87-89.
ResetStateNoFirstPage ==
    [next_link |-> None, current_page |-> ListOf(<<>>), index |-> 0]
ResetState == [next_link |-> FirstPage, current_page |-> ListOf(<<>>), index |-> 0]

\* get(), line 82: self.next_link = url
LinkForGetFirstPage(url) == FirstPage
LinkForGet(url) == url

\* advance_page(), line 92: "if self.next_link is None"
EndOfPagingAfterFirst(link) == link # FirstPage
EndOfPaging(link) == link = None

\* advance_page(), line 94: self._current_page_iter_index = 0
IndexAfterAdvanceKept(index) == index
IndexAfterAdvance(index) == 0

\* The state advance_page() leaves after fetching with the token link.
Advanced(link, index) ==
    [next_link |-> Deserialized(gGetNext[link]).next_link,
     current_page |-> Deserialized(gGetNext[link]).current_page,
     index |-> IndexAfterAdvance(index)]

\* __next__(), line 104, first operand: the truth value of self.current_page.
PageTruthyAlways(page) == TRUE
PageTruthy(page) == page.kind = "list" /\ page.items # <<>>

\* __next__(), line 104, second operand: the cursor is inside the page.
CursorInPageButLast(index, page) == index + 1 < Len(page.items)
CursorInPage(index, page) == index < Len(page.items)

\* __next__(), line 106: self._current_page_iter_index += 1
CursorAfterReturnSkipping(index) == index + 2
CursorAfterReturn(index) == index + 1

\* __next__(), lines 104-110:
\*     if self.current_page and self._current_page_iter_index < len(self.current_page):
\*         return the element at the cursor and move the cursor
\*     else: self.advance_page(); return self.__next__()
\* len(None) is a TypeError; advance_page() raises StopIteration at the end.
RECURSIVE NextResult(_, _, _, _)
NextResult(link, page, index, fetched) ==
    LET here == [next_link |-> link, current_page |-> page, index |-> index]
    IN  IF PageTruthy(page) /\ page.kind # "list"
        THEN [result |-> Raised("TypeError", "none"), state |-> here,
              fetched |-> fetched]
        ELSE IF PageTruthy(page) /\ CursorInPage(index, page)
        THEN [result |-> Returned(page.items[index + 1]),
              state |-> [here EXCEPT !.index = CursorAfterReturn(index)], fetched |-> fetched]
        ELSE IF EndOfPaging(link)
        THEN [result |-> Raised("StopIteration", "none"), state |-> here,
              fetched |-> fetched]
        ELSE NextResult(Advanced(link, index).next_link,
                        Advanced(link, index).current_page,
                        Advanced(link, index).index, Append(fetched, link))

NoOperation == [op |-> "none", arg |-> None, result |-> NoOutcome, fetched |-> <<>>]

PagedOff ==
    /\ gGetNext = <<>> /\ gNextLink = FirstPage /\ gCurrentPage = ListOf(<<>>)
    /\ gIterIndex = 0 /\ gPc = "off" /\ gVia = "fresh" /\ gStart = FirstPage
    /\ gPure = TRUE /\ gOut = <<>> /\ gFetched = <<>> /\ gLast = NoOperation

\* Paged.__init__(command, classes): reset(), self._get_next = command.
PagedNew ==
    /\ gGetNext \in FetchFunctions
    /\ gNextLink = ResetState.next_link /\ gCurrentPage = ResetState.current_page
    /\ gIterIndex = ResetState.index
    /\ gPc = "ready" /\ gVia = "fresh" /\ gStart = FirstPage /\ gPure = TRUE
    /\ gOut = <<>> /\ gFetched = <<>> /\ gLast = NoOperation

\* Paged.__next__
PagedNext ==
    /\ gPc = "ready"
    /\ LET r == NextResult(gNextLink, gCurrentPage, gIterIndex, <<>>)
       IN  /\ gNextLink' = r.state.next_link
           /\ gCurrentPage' = r.state.current_page
           /\ gIterIndex' = r.state.index
           /\ gOut' = IF r.result.kind = "response"
                      THEN Append(gOut, r.result.response) ELSE gOut
           /\ gFetched' = gFetched \o r.fetched
           /\ gLast' = [op |-> "next", arg |-> None, result |-> r.result,
                        fetched |-> r.fetched]
    /\ UNCHANGED <<gGetNext, gPc, gVia, gStart, gPure>>
    /\ UNCHANGED notPaged

\* Paged.advance_page, called by the user of the iterator.
PagedAdvancePage ==
    /\ gPc = "ready"
    /\ IF EndOfPaging(gNextLink)
       THEN /\ gLast' = [op |-> "advance_page", arg |-> None,
                         result |-> Raised("StopIteration", "none"), fetched |-> <<>>]
            /\ UNCHANGED <<gNextLink, gCurrentPage, gIterIndex, gFetched>>
       ELSE LET a == Advanced(gNextLink, gIterIndex)
            IN  /\ gNextLink' = a.next_link
                /\ gCurrentPage' = a.current_page
                /\ gIterIndex' = a.index
                /\ gFetched' = Append(gFetched, gNextLink)
                /\ gLast' = [op |-> "advance_page", arg |-> None,
                             result |-> Returned(a.current_page),
                             fetched |-> <<gNextLink>>]
    /\ gPure' = FALSE
    /\ UNCHANGED <<gGetNext, gPc, gVia, gStart, gOut>>
    /\ UNCHANGED notPaged

\* Paged.reset
PagedReset ==
    /\ gPc = "ready"
    /\ gNextLink' = ResetState.next_link
    /\ gCurrentPage' = ResetState.current_page
    /\ gIterIndex' = ResetState.index
    /\ gVia' = "reset" /\ gStart' = FirstPage /\ gPure' = TRUE
    /\ gOut' = <<>> /\ gFetched' = <<>>
    /\ gLast' = [op |-> "reset", arg |-> None, result |-> NoOutcome, fetched |-> <<>>]
    /\ UNCHANGED <<gGetNext, gPc>>
    /\ UNCHANGED notPaged

\* Paged.get(url): reset(); self.next_link = url; return self.advance_page()
PagedGet ==
    /\ gPc = "ready"
    /\ \E url \in Tokens :
        LET a == Advanced(LinkForGet(url), ResetState.index)
        IN  /\ gNextLink' = a.next_link
            /\ gCurrentPage' = a.current_page
            /\ gIterIndex' = a.index
            /\ gFetched' = <<LinkForGet(url)>>
            /\ gStart' = url
            /\ gLast' = [op |-> "get", arg |-> url, result |-> Returned(a.current_page),
                         fetched |-> <<LinkForGet(url)>>]
    /\ gVia' = "get" /\ gPure' = TRUE /\ gOut' = <<>>
    /\ UNCHANGED <<gGetNext, gPc>>
    /\ UNCHANGED notPaged

----------------------------------------------------------------------------
(* Polling: LROPoller with its PollingMethod (msrest.polling) and              *)
(* async_poller with its AsyncPollingMethod (msrest.polling.async_poller).     *)
(* The poller is the loop "invoke run one step until finished()", followed by  *)
(* resource(), the deserialization callback applied to the initial response    *)
(* (tests/test_polling.py, tests/asynctests/test_polling.py).  NoPolling and   *)
(* AsyncNoPolling are finished on initialize.  LROPoller drives the loop next  *)
(* to its caller, who can register done callbacks and wait in result();        *)
(* async_poller drives it inside the await.  A polling method is described by  *)
(* the number of run steps it needs, the terminal status it reaches and the    *)
(* step at which it raises, if any; each step of a method that needs steps is  *)
(* one pipeline call.                                                          *)

PollImpls == {"LROPoller", "async_poller"}
TerminalStatuses == {"succeeded", "failed", "canceled"}
InitialResponse == "Initial response"
ThePollingMethod == "method"
DoneCallbacks == {"done_cb", "other_cb"}
StepError == Raised("ValueError", "Something bad happened")

\* deserialization_callback(response): "Treated: " + response
Treated(response) == <<"Treated: ", response>>

\* finished()
Finished(status) == status \in TerminalStatuses

\* status() right after initialize: NoPolling is "succeeded" at once.
StatusAfterInitializeRunning(steps) == "running"
StatusAfterInitialize(steps) == IF steps = 0 THEN "succeeded" ELSE "running"

\* status() after the poller's run step number runs returned.
StatusAfterRun(steps, final, runs, status) ==
    IF steps > 0 /\ runs >= steps THEN final ELSE status

\* The condition of the poller loop: run one step until finished().
LoopRunsOnce(status, runs) == runs = 0
LoopGoesOn(status, runs) == ~Finished(status)

\* Where the poller is after a run step raised: the failure is terminal.
AfterStepRaisedRetrying == "polling"
AfterStepRaised == "broken"

\* result() and the await hand back once the loop has ended or a step raised.
ResultMayReturnAlways(pc) == TRUE
ResultMayReturn(pc) == pc \in {"done", "ended", "broken"}

PollerOff ==
    /\ lImpl = "LROPoller" /\ lSteps = 0 /\ lFinal = "succeeded" /\ lBreaks = 0
    /\ lStatus = "succeeded" /\ lRuns = 0 /\ lDirect = 0 /\ lQueries = 0
    /\ lPc = "off" /\ lCallbacks = <<>> /\ lCalled = <<>> /\ lWaiting = FALSE
    /\ lResult = NoOutcome /\ lDeserialized = 0

\* LROPoller(client, initial_response, deserialization_callback, method) has
\* been constructed, or async_poller(...) is awaited: method.initialize() has
\* been called and no run step yet.
PollerNew ==
    /\ lImpl \in PollImpls
    /\ lSteps \in 0..MaxSteps
    /\ lFinal \in (IF lSteps = 0 THEN {"succeeded"} ELSE TerminalStatuses)
    /\ lBreaks \in 0..lSteps
    /\ lStatus = StatusAfterInitialize(lSteps)
    /\ lRuns = 0 /\ lDirect = 0 /\ lQueries = 0
    /\ lPc = (IF LoopGoesOn(lStatus, 0) THEN "polling" ELSE "done")
    /\ lCallbacks = <<>> /\ lCalled = <<>>
    /\ lWaiting = (lImpl = "async_poller")
    /\ lResult = NoOutcome /\ lDeserialized = 0

\* One turn of the poller loop: method.run().
PollerRunStep ==
    /\ lPc = "polling" /\ lRuns <= MaxSteps
    /\ lImpl = "async_poller" => lWaiting
    /\ lRuns' = lRuns + 1
    /\ IF lBreaks = lRuns + 1
       THEN /\ lPc' = AfterStepRaised
            /\ UNCHANGED <<lStatus, lQueries>>
       ELSE /\ lStatus' = StatusAfterRun(lSteps, lFinal, lRuns + 1, lStatus)
            /\ lQueries' = IF lSteps = 0 THEN lQueries ELSE lQueries + 1
            /\ lPc' = (IF LoopGoesOn(lStatus', lRuns') THEN "polling" ELSE "done")
    /\ UNCHANGED <<lImpl, lSteps, lFinal, lBreaks, lDirect, lCallbacks, lCalled,
                   lWaiting, lResult, lDeserialized>>
    /\ UNCHANGED notPoller

\* LROPoller, when the loop has ended: every registered callback is called
\* with the polling method.
PollerNotify ==
    /\ lImpl = "LROPoller" /\ lPc = "done"
    /\ lCalled' = lCalled \o [i \in 1..Len(lCallbacks) |->
                                <<lCallbacks[i], ThePollingMethod, "notified">>]
    /\ lCallbacks' = <<>>
    /\ lPc' = "ended"
    /\ UNCHANGED <<lImpl, lSteps, lFinal, lBreaks, lStatus, lRuns, lDirect, lQueries,
                   lWaiting, lResult, lDeserialized>>
    /\ UNCHANGED notPoller

\* LROPoller.add_done_callback(func): registered while the loop runs, called
\* at once when the loop has ended.
PollerAddDoneCallback ==
    /\ lImpl = "LROPoller" /\ lPc \in {"polling", "done", "ended"}
    /\ \E func \in DoneCallbacks :
        /\ func \notin Range(lCallbacks) /\ func \notin {e[1] : e \in Range(lCalled)}
        /\ IF lPc = "polling"
           THEN lCallbacks' = Append(lCallbacks, func) /\ lCalled' = lCalled
           ELSE /\ lCalled' = Append(lCalled, <<func, ThePollingMethod, "at once">>)
                /\ lCallbacks' = lCallbacks
    /\ UNCHANGED <<lImpl, lSteps, lFinal, lBreaks, lStatus, lRuns, lDirect, lQueries,
                   lPc, lWaiting, lResult, lDeserialized>>
    /\ UNCHANGED notPoller

\* LROPoller.result() is called: the caller waits.
PollerResultCall ==
    /\ lImpl = "LROPoller" /\ lPc # "off" /\ ~lWaiting
    /\ lWaiting' = TRUE
    /\ UNCHANGED <<lImpl, lSteps, lFinal, lBreaks, lStatus, lRuns, lDirect, lQueries,
                   lPc, lCallbacks, lCalled, lResult, lDeserialized>>
    /\ UNCHANGED notPoller

\* result(), or the await of async_poller, hands back: method.resource(), or
\* the exception of the run step that raised.
PollerResultReturn ==
    /\ lPc # "off" /\ lWaiting /\ lResult = NoOutcome /\ ResultMayReturn(lPc)
    /\ IF lPc = "broken"
       THEN lResult' = StepError /\ lDeserialized' = lDeserialized
       ELSE /\ lResult' = Returned(Treated(InitialResponse))
            /\ lDeserialized' = lDeserialized + 1
    /\ UNCHANGED <<lImpl, lSteps, lFinal, lBreaks, lStatus, lRuns, lDirect, lQueries,
                   lPc, lCallbacks, lCalled, lWaiting>>
    /\ UNCHANGED notPoller

\* run() called on a NoPolling or AsyncNoPolling by its user: nothing happens.
PollingMethodRun ==
    /\ lPc # "off" /\ lSteps = 0 /\ lDirect < MaxSteps
    /\ lDirect' = lDirect + 1
    /\ UNCHANGED <<lImpl, lSteps, lFinal, lBreaks, lStatus, lRuns, lQueries, lPc,
                   lCallbacks, lCalled, lWaiting, lResult, lDeserialized>>
    /\ UNCHANGED notPoller

----------------------------------------------------------------------------
(* Sender scope and sessions: Pipeline.__enter__/__exit__                      *)
(* (pipeline/__init__.py), BasicRequestsHTTPSender and RequestsHTTPSender      *)
(* (pipeline/requests.py).  The sender creates one requests.Session in         *)
(* __init__; RequestsHTTPSender._init_session patches its resolve_redirects.   *)
(* session.close() drops the session's pooled connections; a later request     *)
(* opens new ones.                                                             *)

SenderKinds == {"BasicRequestsHTTPSender", "RequestsHTTPSender"}
Threads == {"main", "worker"}

\* session.resolve_redirects: the bound method of requests, or the
\* wrapped_redirect of _init_session with its attribute (lines 263-270).
Resolver(kind) ==
    IF kind = "RequestsHTTPSender"
    THEN [wrapped |-> TRUE, attributes |-> {"is_mrest_patched"}]
    ELSE [wrapped |-> FALSE, attributes |-> {}]

\* build_context(), lines 208-213, inherited unchanged by RequestsHTTPSender:
\* RequestsContext(session=self.session, kwargs={}).
ContextSession(kind, thread) == SenderSession

\* __exit__, lines 202-203: self.close(); close(), lines 205-206:
\* self.session.close().  The session.close() calls one __exit__ makes.
ClosesOnExitNone(kind) == 0
ClosesOnExit(kind) == 1

SenderOff ==
    /\ hKind = "BasicRequestsHTTPSender" /\ hPc = "off" /\ hEnters = 0 /\ hExits = 0
    /\ hCloses = 0 /\ hSessionCloses = 0 /\ hPools = FALSE /\ hBuilt = <<>>

\* Pipeline(policies, sender) over a new sender.
SenderNew ==
    /\ hKind \in SenderKinds /\ hPc = "ready" /\ hEnters = 0 /\ hExits = 0
    /\ hCloses = 0 /\ hSessionCloses = 0 /\ hPools = FALSE /\ hBuilt = <<>>

\* Pipeline.__enter__: self._sender.__enter__(), which returns the sender.
PipelineEnter ==
    /\ hPc = "ready" /\ hEnters < MaxScopes
    /\ hEnters' = hEnters + 1
    /\ UNCHANGED <<hKind, hPc, hExits, hCloses, hSessionCloses, hPools, hBuilt>>
    /\ UNCHANGED notSender

\* Pipeline.__exit__: self._sender.__exit__(*exc_details).
PipelineExit ==
    /\ hPc = "ready" /\ hExits < hEnters
    /\ hExits' = hExits + 1
    /\ hSessionCloses' = hSessionCloses + ClosesOnExit(hKind)
    /\ hPools' = (hPools /\ ClosesOnExit(hKind) = 0)
    /\ UNCHANGED <<hKind, hPc, hEnters, hCloses, hBuilt>>
    /\ UNCHANGED notSender

\* sender.close() called by the user.
SenderClose ==
    /\ hPc = "ready" /\ hCloses < MaxScopes
    /\ hCloses' = hCloses + 1
    /\ hSessionCloses' = hSessionCloses + 1
    /\ hPools' = FALSE
    /\ UNCHANGED <<hKind, hPc, hEnters, hExits, hBuilt>>
    /\ UNCHANGED notSender

\* send(): session.request(...) leaves connections in the session's pools.
SessionRequest ==
    /\ hPc = "ready"
    /\ hPools' = TRUE
    /\ UNCHANGED <<hKind, hPc, hEnters, hExits, hCloses, hSessionCloses, hBuilt>>
    /\ UNCHANGED notSender

\* sender.build_context() called from a thread.
SenderBuildContext ==
    /\ hPc = "ready" /\ Len(hBuilt) < MaxBuilds
    /\ \E thread \in Threads :
        hBuilt' = Append(hBuilt, [thread |-> thread,
                                  session |-> ContextSession(hKind, thread),
                                  resolver |-> Resolver(hKind)])
    /\ UNCHANGED <<hKind, hPc, hEnters, hExits, hCloses, hSessionCloses, hPools>>
    /\ UNCHANGED notSender

----------------------------------------------------------------------------
(* AsyncPipeline: msrest/pipeline/async_abc.py *)

\* The interpreters the package runs on: contextlib has no
\* AbstractAsyncContextManager before 3.7 (async_abc.py, lines 30-41).
Pythons == {"3.6", "3.7"}

\* Classes of the policies given to the pipeline: the base class, a policy of
\* universal.py, and a subclass written by the user that also has the hooks
\* the asynchronous runner calls.
PolicyClasses == {"SansIOHTTPPolicy", "HTTPLogger", "PrepareSubclass"}

\* The methods an object of the class has.  SansIOHTTPPolicy
\* (pipeline/__init__.py, lines 93-116) defines on_request and on_response;
\* HTTPLogger (pipeline/universal.py, lines 88-110) defines on_request and
\* post_send.
Hooks(class) ==
    CASE class = "SansIOHTTPPolicy" -> {"on_request", "on_response"}
      [] class = "HTTPLogger" -> {"on_request", "on_response", "post_send"}
      [] class = "PrepareSubclass" -> {"on_request", "on_response", "prepare", "post_send"}

\* The hooks the runners call around next.send: _SansIOHTTPPolicyRunner.send
\* (pipeline/__init__.py, lines 127-132) and _SansIOAsyncHTTPPolicyRunner.send
\* (async_abc.py, lines 70-74).
SyncBefore == "on_request"
SyncAfter == "on_response"
AsyncBefore == "prepare"
AsyncAfter == "post_send"

\* The methods class AsyncPipeline defines (async_abc.py, lines 104-128).
AsyncPipelineMethods == {"__init__", "__aenter__", "__exit__", "run"}

\* AbstractAsyncContextManager of contextlib is an ABC whose __aexit__ is
\* abstract; the replacement class of lines 33-41 has no ABCMeta, so its
\* abstract mark is not enforced.
CannotInstantiate(python) == python = "3.7" /\ "__aexit__" \notin AsyncPipelineMethods

\* What "async with" calls when the scope is left: the __aexit__ of
\* AsyncPipeline if it defines one (the body of lines 121-122 calls
\* self._sender.__aexit__), else the inherited one, which returns None.
\* The result is the number of sender.__aexit__ calls.
SenderAexitsOnExit == IF "__aexit__" \in AsyncPipelineMethods THEN 1 ELSE 0

\* All sequences over S of length at most n.
SeqsUpTo(S, n) == UNION {[1..k -> S] : k \in 0..n}

\* Pipeline.run over pass-through policies, as the recursion of
\* _SansIOHTTPPolicyRunner.send: the hooks and the send, in order.
RECURSIVE RunnerSendLog(_, _, _)
RunnerSendLog(policies, index, response) ==
    IF index > Len(policies) THEN << <<"send", response>> >>
    ELSE << <<SyncBefore, index>> >>
         \o RunnerSendLog(policies, index + 1, response)
         \o << <<SyncAfter, index>> >>

PipelineRunLog(policies, response) == RunnerSendLog(policies, 1, response)

AsyncOff ==
    /\ aPython = "3.6" /\ aPolicies = <<>> /\ aPc = "off" /\ aCur = Sender
    /\ aStack = <<>> /\ aLog = <<>> /\ aSent = "none" /\ aResult = NoOutcome
    /\ aRuns = 0 /\ aEnters = 0 /\ aExits = 0 /\ aSenderExits = 0

\* The policies and the interpreter, before AsyncPipeline(policies, sender).
AsyncNew ==
    /\ aPython \in Pythons /\ aPolicies \in SeqsUpTo(PolicyClasses, MaxChain)
    /\ aPc = "new" /\ aCur = Sender
    /\ aStack = <<>> /\ aLog = <<>> /\ aSent = "none" /\ aResult = NoOutcome
    /\ aRuns = 0 /\ aEnters = 0 /\ aExits = 0 /\ aSenderExits = 0

\* AsyncPipeline(policies, sender): the class is abstract where __aexit__ is
\* an enforced abstract method; else __init__ wires the runners.
AsyncPipelineInit ==
    /\ aPc = "new"
    /\ IF CannotInstantiate(aPython)
       THEN aPc' = "abstract" /\ aResult' = Raised("TypeError", "__aexit__")
       ELSE aPc' = "idle" /\ aResult' = NoOutcome
    /\ UNCHANGED <<aPython, aPolicies, aCur, aStack, aLog, aSent, aRuns, aEnters, aExits,
                   aSenderExits>>
    /\ UNCHANGED notAsync

\* AsyncPipeline.run: build the context, attach it, enter the first node.
AsyncRun ==
    /\ aPc \in {"idle", "done", "raised"}
    /\ aRuns < MaxRuns
    /\ aRuns' = aRuns + 1
    /\ aCur' = FirstNode(aPolicies)
    /\ aPc' = "call"
    /\ aStack' = <<>> /\ aLog' = <<>> /\ aSent' = "none" /\ aResult' = NoOutcome
    /\ UNCHANGED <<aPython, aPolicies, aEnters, aExits, aSenderExits>>
    /\ UNCHANGED notAsync

\* _SansIOAsyncHTTPPolicyRunner.send, lines 71-72: self._policy.prepare(...),
\* an AttributeError where the policy has no such method, then next.send.
AsyncRunnerPrepare ==
    /\ aPc = "call" /\ aCur # Sender
    /\ IF AsyncBefore \in Hooks(aPolicies[aCur])
       THEN /\ aLog' = Append(aLog, <<AsyncBefore, aCur>>)
            /\ aStack' = Append(aStack, aCur)
            /\ aCur' = ImplNext(aCur, Len(aPolicies))
            /\ UNCHANGED <<aPc, aResult>>
       ELSE /\ aPc' = "raised"
            /\ aResult' = Raised("AttributeError", AsyncBefore)
            /\ aStack' = <<>>
            /\ UNCHANGED <<aLog, aCur>>
    /\ UNCHANGED <<aPython, aPolicies, aSent, aRuns, aEnters, aExits, aSenderExits>>
    /\ UNCHANGED notAsync

\* AsyncHTTPSender.send: the transport answers with a response.
AsyncSenderSend ==
    /\ aPc = "call" /\ aCur = Sender
    /\ \E r \in Responses :
        /\ aSent' = r
        /\ aLog' = Append(aLog, <<"send", r>>)
    /\ aPc' = "return"
    /\ UNCHANGED <<aPython, aPolicies, aCur, aStack, aResult, aRuns, aEnters, aExits,
                   aSenderExits>>
    /\ UNCHANGED notAsync

\* _SansIOAsyncHTTPPolicyRunner.send, lines 73-74: self._policy.post_send(...),
\* then return response.
AsyncRunnerPostSend ==
    /\ aPc = "return" /\ aStack # <<>>
    /\ LET index == aStack[Len(aStack)]
       IN  IF AsyncAfter \in Hooks(aPolicies[index])
           THEN /\ aLog' = Append(aLog, <<AsyncAfter, index>>)
                /\ aStack' = SubSeq(aStack, 1, Len(aStack) - 1)
                /\ UNCHANGED <<aPc, aResult>>
           ELSE /\ aPc' = "raised"
                /\ aResult' = Raised("AttributeError", AsyncAfter)
                /\ aStack' = <<>>
                /\ UNCHANGED aLog
    /\ UNCHANGED <<aPython, aPolicies, aCur, aSent, aRuns, aEnters, aExits, aSenderExits>>
    /\ UNCHANGED notAsync

\* AsyncPipeline.run, line 128: return what the first node returned.
AsyncRunReturn ==
    /\ aPc = "return" /\ aStack = <<>>
    /\ aResult' = Returned(aSent)
    /\ aPc' = "done"
    /\ UNCHANGED <<aPython, aPolicies, aCur, aStack, aLog, aSent, aRuns, aEnters, aExits,
                   aSenderExits>>
    /\ UNCHANGED notAsync

\* "async with pipeline": AsyncPipeline.__aenter__, lines 117-119, awaits
\* self._sender.__aenter__().
AsyncPipelineEnter ==
    /\ aPc \in {"idle", "done", "raised"} /\ aEnters < MaxScopes /\ aEnters = aExits
    /\ aEnters' = aEnters + 1
    /\ UNCHANGED <<aPython, aPolicies, aPc, aCur, aStack, aLog, aSent, aResult, aRuns,
                   aExits, aSenderExits>>
    /\ UNCHANGED notAsync

\* The end of the "async with" block: type(pipeline).__aexit__ is awaited.
AsyncPipelineExit ==
    /\ aPc \in {"idle", "done", "raised"} /\ aExits < aEnters
    /\ aExits' = aExits + 1
    /\ aSenderExits' = aSenderExits + SenderAexitsOnExit
    /\ UNCHANGED <<aPython, aPolicies, aPc, aCur, aStack, aLog, aSent, aResult, aRuns,
                   aEnters>>
    /\ UNCHANGED notAsync

----------------------------------------------------------------------------
(* ServiceClient: msrest/service_client.py *)

\* Two clients built over one Configuration.  The two are alike: the calls
\* that use a session are made on the first, the second opens and leaves
\* its scope.
Clients == {"first", "second"}
Caller == "first"

\* How one send() goes: the first send returns a response or raises something
\* that is no auth rejection, or it raises an auth rejection and the send
\* made after the refresh returns or raises.
SendPaths == {"response", "raise", "refresh-response", "refresh-raise"}

NoSend ==
    [n |-> 0, client |-> "first", shared |-> FALSE, inScope |-> FALSE, keepAlive |-> FALSE,
     driverBefore |-> 0, driverAfter |-> 0, signed |-> <<>>, used |-> <<>>, response |-> FALSE,
     stream |-> FALSE, local |-> 0, closed |-> {}]

\* requests.Session(): a session nobody closed yet.
NewSession(origin) == [origin |-> origin, closes |-> 0, streaming |-> FALSE]

\* ServiceClient.send, lines 205-208: the client's own driver in keep-alive
\* mode, else a new RequestsHTTPSender with a session of its own.
UsesOwnDriver(keepAlive) == keepAlive

\* _close_local_session_if_necessary, lines 260-266.
ClosesSession(own, response, stream) == ~own /\ (~response \/ ~stream)

\* ServiceClient.__exit__, line 99: self.config.keep_alive = False, whatever
\* it was when the scope was entered.
KeepAliveAfterExit(atEnter) == FALSE

ClientOff ==
    /\ kKeepAlive = FALSE /\ kPreset = FALSE /\ kInject = TRUE /\ kPc = "off"
    /\ kScope = [c \in Clients |-> FALSE] /\ kAtEnter = [c \in Clients |-> FALSE]
    /\ kDriver = [c \in Clients |-> 0]
    /\ kSessions = <<>> /\ kReqCtx = 0 /\ kLast = NoSend /\ kSends = 0 /\ kEnters = 0

\* Two ServiceClient(creds, config) over one Configuration whose keep_alive
\* is the default False or was set to True: __init__, line 89, makes each
\* client's RequestsHTTPSender, whose __init__ makes its session.
ClientNew ==
    /\ kKeepAlive \in BOOLEAN /\ kPreset = kKeepAlive /\ kInject \in BOOLEAN /\ kPc = "ready"
    /\ kScope = [c \in Clients |-> FALSE] /\ kAtEnter = [c \in Clients |-> FALSE]
    /\ kDriver = [c \in Clients |-> IF c = "first" THEN 1 ELSE 2]
    /\ kSessions = <<NewSession("driver"), NewSession("driver")>>
    /\ kReqCtx = 0 /\ kLast = NoSend /\ kSends = 0 /\ kEnters = 0

\* ServiceClient.__enter__, lines 91-95.
ClientEnter ==
    /\ kPc = "ready" /\ kEnters < MaxScopes
    /\ \E c \in Clients :
        /\ ~kScope[c]
        /\ kScope' = [kScope EXCEPT ![c] = TRUE]
        /\ kAtEnter' = [kAtEnter EXCEPT ![c] = kKeepAlive]
    /\ kKeepAlive' = TRUE
    /\ kEnters' = kEnters + 1
    /\ UNCHANGED <<kPreset, kInject, kPc, kDriver, kSessions, kReqCtx, kLast, kSends>>
    /\ UNCHANGED notClient

\* ServiceClient.__exit__, lines 97-99: the driver's __exit__ closes the
\* session the driver holds, then keep_alive is assigned.
ClientExit ==
    /\ kPc = "ready"
    /\ \E c \in Clients :
        /\ kScope[c]
        /\ kScope' = [kScope EXCEPT ![c] = FALSE]
        /\ kSessions' = [kSessions EXCEPT ![kDriver[c]].closes = @ + 1]
        /\ kKeepAlive' = KeepAliveAfterExit(kAtEnter[c])
    /\ UNCHANGED <<kPreset, kInject, kPc, kAtEnter, kDriver, kReqCtx, kLast, kSends, kEnters>>
    /\ UNCHANGED notClient

\* ServiceClient.close, lines 101-105: self._http_driver.close(), called on a
\* client that is in no scope and has not closed the session it holds.
ClientClose ==
    /\ kPc = "ready"
    /\ \E c \in {Caller} :
        /\ ~kScope[c] /\ kSessions[kDriver[c]].closes = 0
        /\ kSessions' = [kSessions EXCEPT ![kDriver[c]].closes = @ + 1]
    /\ UNCHANGED <<kKeepAlive, kPreset, kInject, kPc, kScope, kAtEnter, kDriver, kReqCtx,
                   kLast, kSends, kEnters>>
    /\ UNCHANGED notClient

\* ServiceClient.send, lines 205-258, for a new request object or for the
\* one sent before.  The driver is chosen; the credentials sign its session
\* or, if they take no session, return one that replaces it; the driver's
\* send builds the request's context from the driver's session unless the
\* request has one (pipeline/requests.py, lines 285-288) and sends with the
\* context's session; after an auth rejection the credentials refresh the
\* driver's session, or replace it, and the driver sends again; at the end
\* _close_local_session_if_necessary closes the driver's session or not.
ClientSend ==
    /\ kPc = "ready" /\ kSends < MaxSends
    /\ \E c \in {Caller}, path \in SendPaths, stream \in BOOLEAN,
          again \in IF kReqCtx = 0 THEN {FALSE} ELSE BOOLEAN :
        LET own == UsesOwnDriver(kKeepAlive)
            s0 == IF own THEN kSessions ELSE Append(kSessions, NewSession("local"))
            d0 == IF own THEN kDriver[c] ELSE Len(s0)
            s1 == IF kInject THEN s0 ELSE Append(s0, NewSession("credentials"))
            d1 == IF kInject THEN d0 ELSE Len(s1)
            ctx == IF again /\ kReqCtx # 0 THEN kReqCtx ELSE d1
            refresh == path \in {"refresh-response", "refresh-raise"}
            s2 == IF refresh /\ ~kInject THEN Append(s1, NewSession("credentials")) ELSE s1
            d2 == IF refresh /\ ~kInject THEN Len(s2) ELSE d1
            response == path \in {"response", "refresh-response"}
            closing == ClosesSession(own, response, stream)
            holds == ~own /\ response /\ stream
        IN  /\ kSessions' = [s2 EXCEPT ![d2].closes = @ + (IF closing THEN 1 ELSE 0),
                                       ![ctx].streaming = @ \/ holds]
            /\ kDriver' = IF own THEN [kDriver EXCEPT ![c] = d2] ELSE kDriver
            /\ kReqCtx' = ctx
            /\ kLast' = [n |-> kSends + 1, client |-> c, shared |-> own,
                         inScope |-> kScope[c], keepAlive |-> kKeepAlive,
                         driverBefore |-> kDriver[c], driverAfter |-> d2,
                         signed |-> IF refresh THEN <<d1, d2>> ELSE <<d1>>,
                         used |-> IF refresh THEN <<ctx, ctx>> ELSE <<ctx>>,
                         response |-> response, stream |-> stream,
                         local |-> IF own THEN 0 ELSE d0,
                         closed |-> IF closing THEN {d2} ELSE {}]
    /\ kSends' = kSends + 1
    /\ UNCHANGED <<kKeepAlive, kPreset, kInject, kPc, kScope, kAtEnter, kEnters>>
    /\ UNCHANGED notClient

\* ServiceClient.stream_download, lines 268-290, run to its end or released:
\* the response is closed.
ClientStreamDownload ==
    /\ kPc = "ready"
    /\ \E s \in DOMAIN kSessions :
        /\ kSessions[s].streaming
        /\ kSessions' = [kSessions EXCEPT ![s].streaming = FALSE]
    /\ UNCHANGED <<kKeepAlive, kPreset, kInject, kPc, kScope, kAtEnter, kDriver, kReqCtx,
                   kLast, kSends, kEnters>>
    /\ UNCHANGED notClient

----------------------------------------------------------------------------
(* Several Pipelines made from the same policy objects: Pipeline.__init__ *)

\* The policy objects a caller holds: SansIOHTTPPolicy objects and HTTPPolicy
\* objects (such as a RequestsCredentialsPolicy).
PolicyObjects == {<<"sansio", 1>>, <<"sansio", 2>>, <<"http", 1>>, <<"http", 2>>}

\* Pipeline.__init__, lines 150-154: a SansIOHTTPPolicy gets a new
\* _SansIOHTTPPolicyRunner; any other policy object is itself the node.
ImplNode(pipeline, index, policy) ==
    IF policy[1] = "sansio" THEN <<"runner", pipeline, index>> ELSE <<"http", policy[2], 0>>

SenderOf(pipeline) == <<"sender", pipeline, 0>>

ImplPolicies(pipeline, policies) ==
    [index \in DOMAIN policies |-> ImplNode(pipeline, index, policies[index])]

\* Lines 155-158: what each node of the new chain gets as next.
WiredNext(pipeline, impl) ==
    [index \in DOMAIN impl |->
        IF ImplNext(index, Len(impl)) = Sender THEN SenderOf(pipeline)
        ELSE impl[ImplNext(index, Len(impl))]]

\* The next attributes after the assignments of lines 155-158.
Rewire(next, impl, wired) ==
    [node \in DOMAIN next \cup Range(impl) |->
        IF node \in Range(impl)
        THEN wired[CHOOSE index \in DOMAIN impl : impl[index] = node]
        ELSE next[node]]

ChainsOff ==
    /\ nPc = "off" /\ nNext = <<>> /\ nChains = <<>> /\ nWired = <<>>
    /\ nRun = 0 /\ nAt = SenderOf(0) /\ nVisited = <<>>

\* No Pipeline has been made yet.
ChainsNew ==
    /\ nPc = "ready" /\ nNext = <<>> /\ nChains = <<>> /\ nWired = <<>>
    /\ nRun = 0 /\ nAt = SenderOf(0) /\ nVisited = <<>>

\* Pipeline(policies, sender) with a sender of its own.
PipelineInit ==
    /\ nPc = "ready" /\ nRun = 0 /\ Len(nChains) < MaxPipelines
    /\ \E policies \in DistinctSeqs(PolicyObjects, MaxChain) :
        LET pipeline == Len(nChains) + 1
            impl == ImplPolicies(pipeline, policies)
            wired == WiredNext(pipeline, impl)
        IN  /\ nChains' = Append(nChains, impl)
            /\ nWired' = Append(nWired, wired)
            /\ nNext' = Rewire(nNext, impl, wired)
    /\ UNCHANGED <<nPc, nRun, nAt, nVisited>>
    /\ UNCHANGED notChains

\* Pipeline.run, lines 172-173: send of the first node.
ChainRun ==
    /\ nPc = "ready" /\ nRun = 0
    /\ \E pipeline \in DOMAIN nChains :
        /\ nRun' = pipeline
        /\ nAt' = IF FirstNode(nChains[pipeline]) = Sender THEN SenderOf(pipeline)
                  ELSE nChains[pipeline][FirstNode(nChains[pipeline])]
    /\ nVisited' = <<>>
    /\ UNCHANGED <<nPc, nNext, nChains, nWired>>
    /\ UNCHANGED notChains

\* send of a policy node: self.next.send(request).
ChainNextSend ==
    /\ nPc = "ready" /\ nRun # 0 /\ nAt[1] # "sender"
    /\ nVisited' = Append(nVisited, nAt)
    /\ nAt' = nNext[nAt]
    /\ UNCHANGED <<nPc, nNext, nChains, nWired, nRun>>
    /\ UNCHANGED notChains

\* send of the sender the chain ended at; run returns.
ChainSenderSend ==
    /\ nPc = "ready" /\ nRun # 0 /\ nAt[1] = "sender"
    /\ nRun' = 0
    /\ UNCHANGED <<nPc, nNext, nChains, nWired, nAt, nVisited>>
    /\ UNCHANGED notChains

----------------------------------------------------------------------------
(* The requests stacks: BasicRequestsHTTPSender with RequestsCredentialsPolicy *)
(* (pipeline/requests.py) and AsyncBasicRequestsHTTPSender with                *)
(* AsyncRequestsCredentialsPolicy (pipeline/async_requests.py).                *)

TransportResults == Responses \cup ExcClasses
RefreshResults == {"ok"} \cup ExcClasses

NotCalled == [outcome |-> NoOutcome, sends |-> 0, refreshes |-> 0]
Ended(outcome, sends, refreshes) ==
    [outcome |-> outcome, sends |-> sends, refreshes |-> refreshes]
RaisedBy(x) == Raised(x.class, x.cause)

\* One run of a pipeline made of the credentials policy, if installed, and
\* the sender: the policy's send around the sender's send, for the transport
\* answers first and second and the refresh result given.
StackRun(impl, policy, signInject, refreshInject, first, refresh, second) ==
    IF ~policy
    THEN Ended(IF first \in Responses THEN Returned(first)
               ELSE RaisedBy(TransportRaise(impl, first)), 1, 0)
    ELSE IF ~signInject /\ NoInjection(impl).class # "none"
    THEN Ended(RaisedBy(NoInjection(impl)), 0, 0)
    ELSE IF first \in Responses
    THEN Ended(Returned(first), 1, 0)
    ELSE IF AfterFirstSend(TransportRaise(impl, first)) = "done"
    THEN Ended(RaisedBy(OuterHandler(TransportRaise(impl, first))), 1, 0)
    ELSE IF ~refreshInject /\ NoInjection(impl).class # "none"
    THEN Ended(RaisedBy(NoInjection(impl)), 1, 0)
    ELSE IF AfterRefresh(refresh) = "done"
    THEN Ended(RaisedBy(InnerHandler(Exc(refresh))), 1, 1)
    ELSE IF second \in Responses
    THEN Ended(Returned(second), 2, 1)
    ELSE Ended(RaisedBy(InnerHandler(TransportRaise(impl, second))), 2, 1)

StacksOff ==
    /\ qPolicy = TRUE /\ qSignInject = TRUE /\ qRefreshInject = TRUE
    /\ qFirst = "r1" /\ qRefresh = "ok" /\ qSecond = "r1"
    /\ qPc = "off" /\ qSync = NotCalled /\ qAsync = NotCalled

\* The credentials, the pipelines and what the transport will answer.
StacksNew ==
    /\ qPolicy \in BOOLEAN /\ qSignInject \in BOOLEAN /\ qRefreshInject \in BOOLEAN
    /\ qFirst \in TransportResults /\ qRefresh \in RefreshResults
    /\ qSecond \in TransportResults
    /\ qPc = "ready" /\ qSync = NotCalled /\ qAsync = NotCalled

\* Pipeline.run over RequestsCredentialsPolicy and BasicRequestsHTTPSender.
SyncStackRun ==
    /\ qPc = "ready" /\ qSync = NotCalled
    /\ qSync' = StackRun("policy", qPolicy, qSignInject, qRefreshInject,
                         qFirst, qRefresh, qSecond)
    /\ UNCHANGED <<qPolicy, qSignInject, qRefreshInject, qFirst, qRefresh, qSecond, qPc,
                   qAsync>>
    /\ UNCHANGED notStacks

\* AsyncPipeline.run over AsyncRequestsCredentialsPolicy and
\* AsyncBasicRequestsHTTPSender.
AsyncStackRun ==
    /\ qPc = "ready" /\ qAsync = NotCalled
    /\ qAsync' = StackRun("async_policy", qPolicy, qSignInject, qRefreshInject,
                          qFirst, qRefresh, qSecond)
    /\ UNCHANGED <<qPolicy, qSignInject, qRefreshInject, qFirst, qRefresh, qSecond, qPc,
                   qSync>>
    /\ UNCHANGED notStacks

----------------------------------------------------------------------------
(* RequestsPatchSession: msrest/pipeline/requests.py *)

\* Two calls on pipelines whose contexts hold the same session
\* (BasicRequestsHTTPSender.build_context): one is given overrides, one none.
PatchCalls == {"patching", "plain"}

RedirectValues == 0..MaxRedirectLimit
RetryValues == {0, 3}

SessionStates ==
    [max_redirects : RedirectValues, trust_env : BOOLEAN, http : RetryValues,
     https : RetryValues]

\* The kwargs of a call: which of max_redirects, use_env_proxies and retries
\* are present, and their values (the value of an absent key is not read).
NoKwargs == [keys |-> {}, max_redirects |-> 0, use_env_proxies |-> FALSE, retries |-> 0]
Overrides ==
    {k \in [keys : SUBSET {"max_redirects", "use_env_proxies", "retries"},
            max_redirects : RedirectValues, use_env_proxies : BOOLEAN,
            retries : RetryValues] :
        /\ "max_redirects" \notin k.keys => k.max_redirects = 0
        /\ "use_env_proxies" \notin k.keys => k.use_env_proxies = FALSE
        /\ "retries" \notin k.keys => k.retries = 0}

\* old_max_redirects = None, old_trust_env = None, old_retries = {}
NothingSaved ==
    [saved |-> {}, max_redirects |-> 0, trust_env |-> FALSE, http |-> 0, https |-> 0]

NotSeen == [seen |-> FALSE, max_redirects |-> 0, trust_env |-> FALSE, http |-> 0, https |-> 0]
Seen(session) ==
    [seen |-> TRUE, max_redirects |-> session.max_redirects, trust_env |-> session.trust_env,
     http |-> session.http, https |-> session.https]

\* Lines 137-138, "if old_max_redirects:": None and 0 restore nothing.
RestoresMaxRedirects(old) == "max_redirects" \in old.saved /\ old.max_redirects # 0
\* Lines 140-141, "if old_trust_env:": None and False restore nothing.
RestoresTrustEnv(old) == "use_env_proxies" \in old.saved /\ old.trust_env
\* Lines 143-145, "if old_retries:": a dict with the two protocols is true.
RestoresRetries(old) == "retries" \in old.saved

PatchOff ==
    /\ tSession = [max_redirects |-> 0, trust_env |-> FALSE, http |-> 0, https |-> 0]
    /\ tBefore = tSession
    /\ tKwargs = [call \in PatchCalls |-> NoKwargs]
    /\ tPc = [call \in PatchCalls |-> "off"]
    /\ tOld = [call \in PatchCalls |-> NothingSaved]
    /\ tSeen = [call \in PatchCalls |-> NotSeen]
    /\ tRaised = [call \in PatchCalls |-> FALSE]

\* A session in any state, the adapters of both protocols configured alike,
\* and the kwargs of the two calls.
PatchNew ==
    /\ tSession \in {s \in SessionStates : s.http = s.https}
    /\ tBefore = tSession
    /\ tKwargs \in {k \in [PatchCalls -> Overrides] : k["plain"] = NoKwargs}
    /\ tPc = [call \in PatchCalls |-> "idle"]
    /\ tOld = [call \in PatchCalls |-> NothingSaved]
    /\ tSeen = [call \in PatchCalls |-> NotSeen]
    /\ tRaised = [call \in PatchCalls |-> FALSE]

\* RequestsPatchSession.send, lines 109-132: save the old values and patch
\* the session, for the keys present in kwargs.
PatchSessionSend ==
    \E call \in PatchCalls :
        /\ tPc[call] = "idle"
        /\ LET kwargs == tKwargs[call]
           IN  /\ tOld' = [tOld EXCEPT ![call] =
                     [saved |-> kwargs.keys,
                      max_redirects |-> IF "max_redirects" \in kwargs.keys
                                        THEN tSession.max_redirects ELSE 0,
                      trust_env |-> IF "use_env_proxies" \in kwargs.keys
                                    THEN tSession.trust_env ELSE FALSE,
                      http |-> IF "retries" \in kwargs.keys THEN tSession.http ELSE 0,
                      https |-> IF "retries" \in kwargs.keys THEN tSession.https ELSE 0]]
               /\ tSession' =
                     [max_redirects |-> IF "max_redirects" \in kwargs.keys
                                        THEN kwargs.max_redirects ELSE tSession.max_redirects,
                      trust_env |-> IF "use_env_proxies" \in kwargs.keys
                                    THEN kwargs.use_env_proxies ELSE tSession.trust_env,
                      http |-> IF "retries" \in kwargs.keys
                               THEN kwargs.retries ELSE tSession.http,
                      https |-> IF "retries" \in kwargs.keys
                                THEN kwargs.retries ELSE tSession.https]
        /\ tPc' = [tPc EXCEPT ![call] = "patched"]
        /\ UNCHANGED <<tBefore, tKwargs, tSeen, tRaised>>
        /\ UNCHANGED notPatch

\* Line 135: self.next.send(request, **kwargs); the request is sent with the
\* settings the session has now, and the send returns or raises.
PatchNextSend ==
    \E call \in PatchCalls, raised \in BOOLEAN :
        /\ tPc[call] = "patched"
        /\ tSeen' = [tSeen EXCEPT ![call] = Seen(tSession)]
        /\ tRaised' = [tRaised EXCEPT ![call] = raised]
        /\ tPc' = [tPc EXCEPT ![call] = "sent"]
        /\ UNCHANGED <<tSession, tBefore, tKwargs, tOld>>
        /\ UNCHANGED notPatch

\* The finally clause, lines 136-145.
PatchRestore ==
    \E call \in PatchCalls :
        /\ tPc[call] = "sent"
        /\ LET old == tOld[call]
           IN  tSession' =
                 [max_redirects |-> IF RestoresMaxRedirects(old)
                                    THEN old.max_redirects ELSE tSession.max_redirects,
                  trust_env |-> IF RestoresTrustEnv(old)
                                THEN old.trust_env ELSE tSession.trust_env,
                  http |-> IF RestoresRetries(old) THEN old.http ELSE tSession.http,
                  https |-> IF RestoresRetries(old) THEN old.https ELSE tSession.https]
        /\ tPc' = [tPc EXCEPT ![call] = "done"]
        /\ UNCHANGED <<tBefore, tKwargs, tOld, tSeen, tRaised>>
        /\ UNCHANGED notPatch

----------------------------------------------------------------------------
(* The call handed to the HTTP engine: the send methods of the senders of   *)
(* pipeline/requests.py, pipeline/async_requests.py and pipeline/aiohttp.py, *)
(* behind HeadersPolicy and UserAgentPolicy (pipeline/universal.py).         *)
(* Pipeline.run is called with the request alone, so the keyword arguments   *)
(* that reach send are empty.                                                *)

SenderClasses ==
    {"BasicRequestsHTTPSender", "RequestsHTTPSender", "AsyncBasicRequestsHTTPSender",
     "AioHTTPSender"}

HeaderNames == {"User-Agent", "Accept"}
Absent == "absent"
HeaderValues == {Absent, "caller", "config", "HeadersPolicy", "UserAgentPolicy"}
NoHeaders == [name \in HeaderNames |-> Absent]

\* ClientRequest carries files (add_formdata), data (add_content) or neither.
RequestBodies == {"none", "data", "files"}

\* HeadersPolicy(headers), UserAgentPolicy(overwrite=False) and
\* UserAgentPolicy(overwrite=True).
HeaderPolicies == {"HeadersPolicy", "UserAgentPolicy", "UserAgentPolicyOverwrite"}

\* The mapping the HeadersPolicy was constructed with.
PolicyHeaders == [name \in HeaderNames |-> IF name = "Accept" THEN "HeadersPolicy" ELSE Absent]

\* dict.update: the entries of other replace those of headers.
Update(headers, other) ==
    [name \in HeaderNames |-> IF other[name] # Absent THEN other[name] ELSE headers[name]]

\* HeadersPolicy.on_request and UserAgentPolicy.on_request.
HeaderOnRequest(policy, headers) ==
    CASE policy = "HeadersPolicy" -> Update(headers, PolicyHeaders)
      [] policy = "UserAgentPolicy" ->
            IF headers["User-Agent"] = Absent
            THEN [headers EXCEPT !["User-Agent"] = "UserAgentPolicy"]
            ELSE headers
      [] policy = "UserAgentPolicyOverwrite" ->
            [headers EXCEPT !["User-Agent"] = "UserAgentPolicy"]

\* The keyword arguments of session.request that carry headers and body;
\* a call without them sends the session's own default headers and no body.
BareCall == [headers |-> NoHeaders, body |-> "none"]

\* RequestsHTTPSender._configure_send: headers is a copy of config.headers
\* updated with request.headers; files if the request has files, else data
\* if it has data.
ConfigureSend(request, config, kwargs) ==
    [headers |-> Update(config, request.headers), body |-> request.body]

\* BasicRequestsHTTPSender.send and AsyncBasicRequestsHTTPSender.send:
\* session.request(request.method, request.url, **kwargs).
BasicSend(request, kwargs) == kwargs

\* AioHTTPSender.send: self._session.request(request.method, request.url).
AioSend(request, kwargs) == BareCall

EngineCall(sender, request, config, kwargs) ==
    CASE sender = "RequestsHTTPSender" ->
            BasicSend(request, ConfigureSend(request, config, kwargs))
      [] sender \in {"BasicRequestsHTTPSender", "AsyncBasicRequestsHTTPSender"} ->
            BasicSend(request, kwargs)
      [] sender = "AioHTTPSender" -> AioSend(request, kwargs)

EngineOff ==
    /\ eSender = "BasicRequestsHTTPSender" /\ eConfig = NoHeaders /\ ePolicies = <<>>
    /\ eHeaders = NoHeaders /\ eBody = "none" /\ ePc = "off" /\ eAt = 0
    /\ eCall = BareCall

\* A pipeline of header policies over one of the senders, and a request.
EngineNew ==
    /\ eSender \in SenderClasses
    /\ eConfig \in [HeaderNames -> {Absent, "config"}]
    /\ ePolicies \in SeqsUpTo(HeaderPolicies, MaxHeaderPolicies)
    /\ eHeaders \in [HeaderNames -> {Absent, "caller"}]
    /\ eBody \in RequestBodies
    /\ ePc = "idle" /\ eAt = 0 /\ eCall = BareCall

\* Pipeline.run(request)
HeadersRun ==
    /\ ePc = "idle"
    /\ ePc' = "policies" /\ eAt' = 1
    /\ UNCHANGED <<eSender, eConfig, ePolicies, eHeaders, eBody, eCall>>
    /\ UNCHANGED notEngine

\* _SansIOHTTPPolicyRunner.send: on_request of the next policy.
HeadersOnRequest ==
    /\ ePc = "policies" /\ eAt <= Len(ePolicies)
    /\ eHeaders' = HeaderOnRequest(ePolicies[eAt], eHeaders)
    /\ eAt' = eAt + 1
    /\ UNCHANGED <<eSender, eConfig, ePolicies, eBody, ePc, eCall>>
    /\ UNCHANGED notEngine

\* send of the sender, behind the last policy.
HeadersSenderSend ==
    /\ ePc = "policies" /\ eAt > Len(ePolicies)
    /\ eCall' = EngineCall(eSender, [headers |-> eHeaders, body |-> eBody], eConfig, BareCall)
    /\ ePc' = "done"
    /\ UNCHANGED <<eSender, eConfig, ePolicies, eHeaders, eBody, eAt>>
    /\ UNCHANGED notEngine

----------------------------------------------------------------------------
(* Properties of the policy chain *)

OnRequests(policies) == [i \in 1..Len(policies) |-> <<"on_request", policies[i]>>]
OnResponses(policies) ==
    [i \in 1..Len(policies) |-> <<"on_response", Reverse(policies)[i]>>]

\* C1: a run that completes without error has invoked on_request of p1..pn in
\* that order, then the sender's send exactly once, then on_response of pn..p1,
\* and returns the response the sender produced.
C1_RunOrder ==
    pPc = "done" =>
        /\ pLog = OnRequests(pPolicies) \o << <<"send", pSent>> >> \o OnResponses(pPolicies)
        /\ CountOf(pLog, "send") = 1
        /\ pSent \in Responses
        /\ pResult = Returned(pSent)

C1_Witness ==
    /\ pPc = "done" /\ Len(pPolicies) = 3 /\ pRuns = 2
    /\ pLog[1] = <<"on_request", pPolicies[1]>>
    /\ pLog[7] = <<"on_response", pPolicies[1]>>

----------------------------------------------------------------------------
(* Properties of the credential protocol *)

Sends(log) == SelectSeq(log, LAMBDA e : e[1] = "send")
Calls(log) == SelectSeq(log, LAMBDA e : e[1] \in {"send", "refresh"})
FirstSendRejected == Len(Sends(cLog)) >= 1 /\ IsAuthRejection(Sends(cLog)[1][2])

\* C2: when the first send raises an auth rejection and the send made after the
\* refresh succeeds, refresh_session ran exactly once, between the two sends,
\* exactly two sends occurred and the call returns the second send's response.
\* (A refresh_session(session) call refused with TypeError by credentials
\* without session injection runs no refresh; it is logged as refresh_rejected.)
C2_RefreshOnceThenResend ==
    (/\ cPc = "done" /\ FirstSendRejected
     /\ Len(Sends(cLog)) >= 2 /\ Sends(cLog)[2][2] \in Responses)
    => /\ Len(Calls(cLog)) = 3
       /\ Calls(cLog)[1][1] = "send"
       /\ Calls(cLog)[2] = <<"refresh", "ok">>
       /\ Calls(cLog)[3][1] = "send"
       /\ CountOf(cLog, "refresh") = 1
       /\ cOutcome = Returned(Calls(cLog)[3][2])

C2_Witness ==
    /\ cPc = "done" /\ cImpl = "client" /\ FirstSendRejected
    /\ cOutcome = Returned("r2")

\* C3: when the first send and the send made after the refresh both raise an
\* auth rejection, the call ends raising msrest's TokenExpiredError (not a
\* ClientRequestError), after exactly two sends and at most one refresh.
C3_SecondRejectionIsTerminal ==
    /\ (/\ FirstSendRejected
        /\ Len(Sends(cLog)) >= 2 /\ IsAuthRejection(Sends(cLog)[2][2]))
       => /\ cPc = "done"
          /\ cOutcome = Raised("TokenExpiredError", Sends(cLog)[2][2])
          /\ Len(Sends(cLog)) = 2
    /\ CountOf(cLog, "refresh") <= 1
    /\ Len(Sends(cLog)) <= 2

C3_Witness ==
    /\ cPc = "done" /\ cImpl = "async_client"
    /\ Len(Sends(cLog)) = 2 /\ CountOf(cLog, "refresh") = 1
    /\ cOutcome = Raised("TokenExpiredError", "InvalidGrantError")

\* A send of the log that raised something other than an auth rejection.
FailedSend(i) ==
    /\ cLog[i][1] = "send" /\ cLog[i][2] \in ExcClasses /\ ~IsAuthRejection(cLog[i][2])

\* C4 as stated: after a send that raises a failure other than an auth
\* rejection nothing more is called, a RequestException surfaces as
\* ClientRequestError carrying it, any other exception propagates unchanged.
C4_Original ==
    \A i \in DOMAIN cLog : FailedSend(i) =>
        /\ i = Len(cLog) /\ cPc = "done"
        /\ cOutcome = IF cLog[i][2] = "RequestException"
                      THEN Raised("ClientRequestError", "RequestException")
                      ELSE Raised(cLog[i][2], "none")

\* C4 amended: after a send that raises a failure other than an auth rejection
\* nothing more is called (no refresh, no further send); a RequestException or
\* an oauthlib OAuth2Error surfaces as ClientRequestError carrying the original
\* error, an exception of any other class propagates unchanged.
C4_OtherFailureEndsCall ==
    \A i \in DOMAIN cLog : FailedSend(i) =>
        /\ i = Len(cLog) /\ cPc = "done"
        /\ cOutcome = IF cLog[i][2] \in {"RequestException", "OAuth2Error"}
                      THEN Raised("ClientRequestError", cLog[i][2])
                      ELSE Raised(cLog[i][2], "none")

C4_Witness ==
    /\ cPc = "done" /\ Len(Sends(cLog)) = 2 /\ FailedSend(Len(cLog))
    /\ cOutcome = Raised("ValueError", "none")

----------------------------------------------------------------------------
(* Properties of the retry policy *)

\* C6: on an allow-listed method, N answers with a retryable status followed by
\* another status: for N <= B that answer, attempt N+1, is returned; for N > B
\* the call raises ClientRequestError after exactly B+1 attempts.
C6_RetryBudget ==
    rMethod \in {"HEAD", "TRACE", "GET", "PUT", "OPTIONS", "DELETE", "POST", "PATCH"} =>
        /\ rPc = "attempt" => rAttempts = rRetried /\ rRetried <= rBudget
        /\ (rPc = "done" /\ rRetried <= rBudget) =>
              /\ rAttempts = rRetried + 1
              /\ rOutcome = Returned(rLast)
        /\ (rPc = "done" /\ rRetried > rBudget) =>
              /\ rAttempts = rBudget + 1 /\ rRetried = rBudget + 1
              /\ rOutcome = Raised("ClientRequestError", "RequestException")

C6_Witness ==
    /\ rPc = "done" /\ rMethod = "GET" /\ rBudget = 3
    /\ rRetried = 3 /\ rAttempts = 4 /\ rOutcome = Returned(202)

C6_WitnessExhausted ==
    /\ rPc = "done" /\ rMethod = "GET" /\ rBudget = 3
    /\ rAttempts = 4 /\ rOutcome = Raised("ClientRequestError", "RequestException")

\* C7: a request whose method is not on the allow-list is sent at most once,
\* whatever the status of the answer, which is returned; so for MERGE.
C7_NoRetryOffAllowList ==
    rMethod \notin {"HEAD", "TRACE", "GET", "PUT", "OPTIONS", "DELETE", "POST", "PATCH"} =>
        /\ rAttempts <= 1 /\ rRetried = 0
        /\ rAttempts = 1 => rPc = "done" /\ rOutcome = Returned(rLast)

C7_Witness ==
    /\ rMethod = "MERGE" /\ rPc = "done" /\ rConfigured = 3
    /\ rLast = 502 /\ rOutcome = Returned(502)

\* An answer was received on an allow-listed method and handed back to the caller.
AnsweredOnAllowList ==
    /\ rAttempts >= 1
    /\ rMethod \in {"HEAD", "TRACE", "GET", "PUT", "OPTIONS", "DELETE", "POST", "PATCH"}
HandedBack == rPc = "done" /\ rOutcome = Returned(rLast)

\* C8 as stated: a status is retryable exactly when it is outside the safe set,
\* the safe set being the 4xx codes other than 408 plus 501 and 505.
C8_Original ==
    AnsweredOnAllowList =>
        (HandedBack <=> rLast \in ((400..499) \ {408}) \cup {501, 505})

\* C8 amended: a status is retryable exactly when it is one of 0..998 and
\* outside the safe set, the safe set being every code below 500 other than 408
\* plus 501 and 505: 408, 500, 502, 503 and 504 qualify for a retry, 404, 501
\* and 505 (and 200, 301, 999) are handed back without one.
C8_RetryableStatuses ==
    AnsweredOnAllowList =>
        /\ HandedBack <=> (rLast \in ((0..499) \ {408}) \cup {501, 505} \/ rLast > 998)
        /\ rLast \in {408, 500, 502, 503, 504} => ~HandedBack
        /\ rLast \in {404, 501, 505} => HandedBack

C8_Witness ==
    /\ AnsweredOnAllowList /\ rLast = 408 /\ rPc = "attempt" /\ rRetried = 1

C8_WitnessSafe ==
    /\ AnsweredOnAllowList /\ rLast = 505 /\ HandedBack /\ rAttempts = 1

\* C9: the budget is per call: whatever earlier calls consumed, a call's retry
\* state is the configured budget minus the retries of this call alone, and
\* these never exceed the budget.
C9_BudgetPerCall ==
    rPc = "attempt" =>
        /\ rBudget = rConfigured
        /\ rRemaining = rConfigured - rRetried
        /\ rRetried <= rConfigured
        /\ rAttempts = 0 => rRemaining = rConfigured

C9_Witness ==
    /\ rPc = "attempt" /\ rCalls = 2 /\ rEarlier = 4 /\ rConfigured = 3
    /\ rAttempts = 0 /\ rRemaining = 3

----------------------------------------------------------------------------
(* Properties of the redirect decision *)

\* The first answer has been resolved.
FirstResolved == Len(dAnswers) >= 1 /\ (dPc # "resolve" \/ Len(dAnswers) >= 2)
Suppressed == dAnswers[1][1] \in {301, 302} /\ dSent[1] \notin {"GET", "HEAD"}

\* C10 as stated, for a first answer with a 3xx status and a Location header,
\* redirects allowed and at least one permitted: following is suppressed
\* exactly for 301/302 on a method other than GET and HEAD, and every other
\* status/method pair is followed.
C10_Original ==
    (/\ FirstResolved /\ dAllow /\ dMax >= 1
     /\ dAnswers[1][1] \in 300..399 /\ dAnswers[1][2])
    => (Len(dSent) >= 2 <=> ~Suppressed)

\* C10 amended: following is suppressed exactly when the status is 301 or 302
\* and the method is neither GET nor HEAD: then no follow-up request is made
\* and the 3xx answer is returned.  For every other status/method pair the
\* answer goes to the session's redirect logic, which follows it when the
\* status is 301, 302, 303, 307 or 308 and a Location header is present (a 305
\* with a Location is returned); the follow-up of a 307 keeps the method.
C10_RedirectDecision ==
    (FirstResolved /\ dAllow /\ dMax >= 1) =>
        /\ Suppressed =>
              /\ Len(dSent) = 1 /\ dPc = "done"
              /\ dOutcome = Returned(dAnswers[1][1])
        /\ ~Suppressed =>
              (Len(dSent) >= 2 <=>
                  (dAnswers[1][2] /\ dAnswers[1][1] \in {301, 302, 303, 307, 308}))
        /\ (dAnswers[1][1] = 307 /\ Len(dSent) >= 2) => dSent[2] = dSent[1]

C10_Witness ==
    /\ dPc = "done" /\ dSent = <<"POST", "POST">>
    /\ dAnswers = << <<307, TRUE>>, <<200, FALSE>> >>
    /\ dOutcome = Returned(200)

C10_WitnessSuppressed ==
    /\ dPc = "done" /\ dSent = <<"POST">> /\ dAnswers = << <<301, TRUE>> >>
    /\ dOutcome = Returned(301)

\* Redirects followed by the current call.
Followed == IF dSent = <<>> THEN 0 ELSE Len(dSent) - 1
\* The last answer of the call is one the redirect logic would follow.
LastFollowable ==
    /\ dAnswers # <<>> /\ dAllow
    /\ (Len(dAnswers) >= 2 \/ CheckRedirect(dAnswers[1][1], dSent[1]))
    /\ IsRedirect(dAnswers[Len(dAnswers)][1], dAnswers[Len(dAnswers)][2])

\* C11: with max_redirects = M one call follows at most M redirects; a call
\* that meets a followable redirect after M were followed ends by raising
\* ClientRequestError (carrying the TooManyRedirects RequestException), never
\* by returning that 3xx answer, and the call cannot go on past it; every
\* follow-up request is sent inside the call that met the redirect: following
\* starts no new call.
C11_MaxRedirects ==
    /\ [](/\ Followed <= dMax
          /\ (dPc = "done" /\ LastFollowable) =>
                /\ Followed = dMax
                /\ dOutcome = Raised("ClientRequestError", "RequestException")
          /\ (dPc = "done" /\ dOutcome.kind = "raise") => LastFollowable)
    /\ [][(dPc = "resolve" /\ dPc' = "respond") =>
              /\ dCalls' = dCalls
              /\ Len(dSent') = Len(dSent) + 1
              /\ dAnswers' = dAnswers]_vars

C11_Witness ==
    /\ dPc = "done" /\ dMax = 2 /\ dCalls = 1
    /\ dSent = <<"GET", "GET", "GET">>
    /\ dAnswers = << <<307, TRUE>>, <<307, TRUE>>, <<307, TRUE>> >>
    /\ dOutcome = Raised("ClientRequestError", "RequestException")

----------------------------------------------------------------------------
(* Properties of the streaming download *)

EventsOf(log, kind) == SelectSeq(log, LAMBDA e : e[1] = kind)
ChunksOf(log, kind) == [i \in 1..Len(EventsOf(log, kind)) |-> EventsOf(log, kind)[i][2]]
Yielded == ChunksOf(sLog, "yield")
Called == ChunksOf(sLog, "callback")
Closed == EventsOf(sLog, "close") # <<>>
CallbackRaised == EventsOf(sLog, "raised") # <<>>
\* The source has handed out its end: StopIteration or an empty chunk.
EndFound == \E i \in DOMAIN sLog : sLog[i] = <<"stop">> \/ sLog[i] = <<"fetch", <<>>>>
EndSignal(outcome) ==
    outcome.kind = "raise" /\ outcome.class \in {"StopIteration", "StopAsyncIteration"}

\* C12 as stated, for every implementation: a pull hands over a chunk, signals
\* the end or propagates the callback's exception; every chunk handed over is
\* non-empty and no longer than the block size; once the consumption has come
\* to its end without a callback failure the chunks handed over, concatenated
\* in order, are the body; and a given callback has been called exactly once
\* per chunk handed over, right before it, with that chunk and the response.
C12_Original ==
    sPc # "off" =>
        /\ (sLast.kind = "raise" /\ ~EndSignal(sLast)) => sLast.class = "CallbackError"
        /\ \A i \in DOMAIN Yielded : Len(Yielded[i]) \in 1..sBlock
        /\ ((EndSignal(sLast) \/ sLast = Completed) /\ ~CallbackRaised) =>
              Concat(Yielded) = sBody
        /\ (HasCallback(sCallback) /\ ~CallbackRaised) =>
              /\ Called = Yielded
              /\ \A i \in DOMAIN sLog :
                    sLog[i][1] = "yield" =>
                        i > 1 /\ sLog[i - 1] = <<"callback", sLog[i][2], TheResponse>>

\* The step is a pull on a generator or on a StreamDownloadGenerator.
IsPull == sPulls' = sPulls + 1 /\ sImpl # "aiohttp"

\* C13: once a pull on a generator or on a StreamDownloadGenerator has found
\* an empty chunk or the end of the source, the response has been closed, the
\* pull has signalled the end of the sequence and the sequence is over; every
\* later pull signals the end again, hands over no chunk and calls no callback.
C13_EndIsFinal ==
    /\ []((sImpl # "aiohttp" /\ EndFound) =>
              /\ Closed
              /\ EndSignal(sLast)
              /\ sPc \in {"ended", "released"})
    /\ [][(IsPull /\ EndFound) =>
              /\ EndSignal(sLast')
              /\ ChunksOf(sLog', "yield") = Yielded
              /\ ChunksOf(sLog', "callback") = Called
              /\ sRest' = sRest]_vars

C13_Witness ==
    /\ sImpl = "asyncio" /\ sBody = <<"a">> /\ sEnd = "empty" /\ sPulls = 3
    /\ sLog = << <<"fetch", <<"a">>>>, <<"yield", <<"a">>>>,
                 <<"fetch", <<>>>>, <<"close">>, <<"fetch", <<>>>>, <<"close">> >>
    /\ sLast = Raised("StopAsyncIteration", "none")

C13_WitnessGenerator ==
    /\ sImpl = "client" /\ sConsumed /\ sBody = <<"a", "b">> /\ sBlock = 2
    /\ sPulls = 3 /\ Yielded = << <<"a", "b">> >> /\ Closed
    /\ sLast = Raised("StopIteration", "none")

\* C14: when the progress callback raises while a chunk is being delivered,
\* the pull raises that exception, the chunk is not handed to the consumer,
\* then or later, and the response is closed right away; for the generator of
\* RequestsClientResponse.stream_download, for StreamDownloadGenerator, and
\* for ServiceClient.stream_download over content not yet consumed.
C14_InScope ==
    sImpl \in {"response", "asyncio"} \/ (sImpl = "client" /\ ~sConsumed)
C14_CallbackFailure ==
    /\ [](C14_InScope =>
            \A i \in DOMAIN sLog :
                sLog[i][1] = "raised" =>
                    /\ i > 1 /\ sLog[i - 1] = <<"callback", sLog[i][2], TheResponse>>
                    /\ i < Len(sLog) /\ sLog[i + 1] = <<"close">>
                    /\ \A j \in DOMAIN Yielded : Yielded[j] # sLog[i][2])
    /\ [][(C14_InScope /\ Len(EventsOf(sLog', "raised")) > Len(EventsOf(sLog, "raised")))
              => /\ sLast' = Raised("CallbackError", "none")
                 /\ ChunksOf(sLog', "yield") = Yielded]_vars

C14_Witness ==
    /\ sImpl = "asyncio" /\ sBody = <<"a", "b">> /\ sBlock = 1 /\ sPulls = 2
    /\ sLog = << <<"fetch", <<"a">>>>, <<"callback", <<"a">>, TheResponse>>,
                 <<"yield", <<"a">>>>,
                 <<"fetch", <<"b">>>>, <<"callback", <<"b">>, TheResponse>>,
                 <<"raised", <<"b">>>>, <<"close">> >>
    /\ sLast = Raised("CallbackError", "none")

C14_WitnessGenerator ==
    /\ sImpl = "response" /\ sBody = <<"a">> /\ sPulls = 1
    /\ sLog = << <<"fetch", <<"a">>>>, <<"callback", <<"a">>, TheResponse>>,
                 <<"raised", <<"a">>>>, <<"close">> >>
    /\ sLast = Raised("CallbackError", "none") /\ sPc = "ended"

\* C15 as stated, over a body that is still on the wire: when the consumer has
\* pulled chunks, has not reached the end and releases the sequence, the
\* response is closed, for the synchronous generators and for
\* StreamDownloadGenerator alike.
C15_Original ==
    (/\ sPc = "released" /\ sImpl \in {"response", "client", "asyncio"}
     /\ ~sConsumed
     /\ Yielded # <<>> /\ ~EndFound /\ ~CallbackRaised /\ sRest # <<>>)
    => Closed

----------------------------------------------------------------------------
(* Properties of paging *)

\* The pages of the chain that starts at a token, and their elements laid end
\* to end: each page once, in chain order, elements in page order.
RECURSIVE TokensFrom(_)
TokensFrom(link) ==
    IF link = None THEN <<>> ELSE <<link>> \o TokensFrom(gGetNext[link].nextLink)
RECURSIVE ElementsFrom(_)
ElementsFrom(link) ==
    IF link = None THEN <<>>
    ELSE ItemsOf(gGetNext[link].value) \o ElementsFrom(gGetNext[link].nextLink)

\* __next__ has just signalled the end of an iteration made of __next__ calls only.
Exhausted(via) ==
    /\ gPc = "ready" /\ gVia = via /\ gPure
    /\ gLast.op = "next" /\ gLast.result = Raised("StopIteration", "none")

\* C16: when a new Paged has been iterated to exhaustion, the fetch operation
\* was called once for each page of the chain, first page first and then the
\* page each next token names, and the elements returned are the elements of
\* these pages, each once, pages in that order and elements in page order.
C16_FullIteration ==
    Exhausted("fresh") =>
        /\ gFetched = TokensFrom(FirstPage)
        /\ gOut = ElementsFrom(FirstPage)

C16_Witness ==
    /\ Exhausted("fresh")
    /\ gFetched = <<FirstPage, "page2">>
    /\ gOut = <<"value1.0", "value1.1", "value2.0", "value2.1">>

\* C17: reset(), whenever it is called, leaves next_link = "", an empty
\* current page and cursor 0, the state of a new Paged; and an iteration run
\* to exhaustion after it fetches the pages and returns the elements a new
\* Paged over the same fetch operation does.
C17_ResetRestarts ==
    /\ [](Exhausted("reset") =>
            /\ gFetched = TokensFrom(FirstPage)
            /\ gOut = ElementsFrom(FirstPage))
    /\ [][gLast'.op = "reset" =>
            /\ gNextLink' = FirstPage
            /\ gCurrentPage' = ListOf(<<>>)
            /\ gIterIndex' = 0]_vars

\* reset() in the middle of the second page, then a full iteration.
C17_Witness ==
    /\ Exhausted("reset")
    /\ gOut = <<"value1.0", "value1.1", "value2.0", "value2.1">>

C17_WitnessMidPage ==
    /\ gPc = "ready" /\ gLast.op = "reset" /\ gNextLink = FirstPage
    /\ gCurrentPage = ListOf(<<>>) /\ gIterIndex = 0

\* C18: advance_page() with next_link None raises StopIteration, calls no
\* fetch and leaves next_link, the current page and the cursor as they were;
\* otherwise it calls fetch exactly once, with the current token, sets the
\* cursor to 0 and returns the fetched page's batch, which is the current page.
C18_AdvancePage ==
    [][gLast'.op = "advance_page" =>
        IF gNextLink = None
        THEN /\ gLast'.result = Raised("StopIteration", "none")
             /\ gLast'.fetched = <<>>
             /\ gFetched' = gFetched
             /\ gCurrentPage' = gCurrentPage
             /\ gIterIndex' = gIterIndex
             /\ gNextLink' = gNextLink
        ELSE /\ gLast'.fetched = <<gNextLink>>
             /\ gFetched' = Append(gFetched, gNextLink)
             /\ gIterIndex' = 0
             /\ gLast'.result = [kind |-> "response",
                                 response |-> gGetNext[gNextLink].value]
             /\ gCurrentPage' = gGetNext[gNextLink].value
             /\ gNextLink' = gGetNext[gNextLink].nextLink]_vars

\* advance_page() at the end of paging, with the cursor in the last page.
C18_Witness ==
    /\ gPc = "ready" /\ gLast.op = "advance_page"
    /\ gLast.result = Raised("StopIteration", "none")
    /\ gNextLink = None /\ gCurrentPage = ListOf(<<"value2.0", "value2.1">>)
    /\ gIterIndex = 1

\* advance_page() onto the second page from the middle of the first.
C18_WitnessFetch ==
    /\ gPc = "ready" /\ gLast.op = "advance_page" /\ gLast.fetched = <<"page2">>
    /\ gOut = <<"value1.0">> /\ gIterIndex = 0
    /\ gCurrentPage = ListOf(<<"value2.0", "value2.1">>)

C19_WitnessLastPage ==
    /\ gPc = "ready" /\ gLast.op = "get" /\ gLast.arg = "page3"
    /\ gLast.result = [kind |-> "response",
                       response |-> ListOf(<<"value3.0", "value3.1">>)]
    /\ gNextLink = None /\ gIterIndex = 0

\* The page a token fetches carries no element: its value is None or empty.
NoElements(token) == ItemsOf(gGetNext[token].value) = <<>>

\* C20: a __next__ call returns an element or raises StopIteration, nothing
\* else; a page it fetches whose value is None (or empty) gives no element:
\* when that page's next token is None the call ends the iteration, otherwise
\* the call goes on to fetch the page that token names.
C20_NoneValue ==
    [][gLast'.op = "next" =>
        /\ gLast'.result.kind \in {"response", "raise"}
        /\ gLast'.result.kind = "raise" => gLast'.result.class = "StopIteration"
        /\ \A i \in DOMAIN gLast'.fetched :
              NoElements(gLast'.fetched[i]) =>
                  IF gGetNext[gLast'.fetched[i]].nextLink = None
                  THEN /\ i = Len(gLast'.fetched)
                       /\ gLast'.result.kind = "raise"
                       /\ gOut' = gOut
                  ELSE /\ i < Len(gLast'.fetched)
                       /\ gLast'.fetched[i + 1] = gGetNext[gLast'.fetched[i]].nextLink
        /\ gLast'.result.kind = "response" =>
              /\ gCurrentPage'.kind = "list"
              /\ gLast'.result.response = gCurrentPage'.items[gIterIndex']
              /\ gOut' = Append(gOut, gLast'.result.response)]_vars

\* A first page with value None that names page2, whose elements follow, and
\* a last page with value None: one __next__ call crosses the first page, the
\* last one ends the iteration.
C20_Witness ==
    /\ Exhausted("fresh")
    /\ gGetNext[FirstPage] = [nextLink |-> "page2", value |-> NoneBatch]
    /\ gGetNext["page3"] = [nextLink |-> None, value |-> NoneBatch]
    /\ gFetched = <<FirstPage, "page2", "page3">>
    /\ gOut = <<"value2.0", "value2.1">>
    /\ gLast.fetched = <<"page3">>

C20_WitnessOnlyPage ==
    /\ Exhausted("fresh")
    /\ gGetNext[FirstPage] = [nextLink |-> None, value |-> NoneBatch]
    /\ gFetched = <<FirstPage>> /\ gOut = <<>>

\* The current batch holds an element the cursor has not passed.
Unread == PageTruthy(gCurrentPage) /\ gIterIndex < Len(gCurrentPage.items)

\* C21 as stated: one __next__ call invokes the fetch operation at most once,
\* also when the page it fetches is empty and names a further page.
C21_Original ==
    [][gLast'.op = "next" => Len(gLast'.fetched) <= 1]_vars

\* C21: a __next__ call made while the current batch has an unread element
\* fetches nothing; otherwise it calls advance_page and retries, as often as
\* the page fetched carries no element and names a further page: the pages
\* it fetches are the chain from the current token, in order, up to the first
\* page that carries an element, whose first element it returns, or up to
\* the end of the chain, where it raises StopIteration; so it fetches exactly
\* once when the first page fetched carries an element.
C21_FetchesPerNext ==
    [][gLast'.op = "next" =>
        LET f == gLast'.fetched
            chain == TokensFrom(gNextLink)
        IN  IF Unread
            THEN f = <<>> /\ gLast'.result.kind = "response"
            ELSE /\ Len(f) <= Len(chain)
                 /\ f = SubSeq(chain, 1, Len(f))
                 /\ \A i \in 1..(Len(f) - 1) : NoElements(f[i])
                 /\ IF gLast'.result.kind = "response"
                    THEN /\ f # <<>>
                         /\ ~NoElements(f[Len(f)])
                         /\ gLast'.result.response =
                                ItemsOf(gGetNext[f[Len(f)]].value)[1]
                    ELSE /\ f = chain
                         /\ \A i \in DOMAIN f : NoElements(f[i])
                         /\ gLast'.result = Raised("StopIteration", "none")]_vars

\* One __next__ call on a new Paged whose first page is an empty list that
\* names page2: the call fetches both pages and returns page2's first element.
C21_Witness ==
    /\ gPc = "ready" /\ gLast.op = "next"
    /\ gGetNext[FirstPage] = [nextLink |-> "page2", value |-> ListOf(<<>>)]
    /\ gLast.fetched = <<FirstPage, "page2">>
    /\ gLast.result = Returned("value2.0")
    /\ gOut = <<"value2.0">>

\* A __next__ call that finds an unread element and fetches nothing.
C21_WitnessUnread ==
    /\ gPc = "ready" /\ gLast.op = "next" /\ gLast.fetched = <<>>
    /\ gLast.result = Returned("value1.1")

\* The elements of the pages a sequence of tokens fetches, laid end to end.
RECURSIVE ElementsOfPages(_)
ElementsOfPages(tokens) ==
    IF tokens = <<>> THEN <<>>
    ELSE ItemsOf(gGetNext[Head(tokens)].value) \o ElementsOfPages(Tail(tokens))

\* C22: in an iteration made of __next__ calls only (after construction,
\* reset() or get()), every fetch but the first is made with the next token
\* of the response to the fetch before it, so a fetch is issued only when the
\* one before it has answered; the elements returned so far are all elements
\* of the pages fetched before the latest one and the elements of the latest
\* page in front of the cursor; and a __next__ call fetches only when every
\* element of every page fetched so far has been returned.
C22_NoFetchAhead ==
    /\ [](gPc = "ready" /\ gPure =>
            LET n == Len(gFetched)
            IN  /\ \A i \in 1..(n - 1) :
                      gFetched[i + 1] = gGetNext[gFetched[i]].nextLink
                /\ n = 0 => gOut = <<>>
                /\ n > 0 =>
                      /\ gIterIndex <= Len(ItemsOf(gGetNext[gFetched[n]].value))
                      /\ gOut = ElementsOfPages(SubSeq(gFetched, 1, n - 1))
                                \o SubSeq(ItemsOf(gGetNext[gFetched[n]].value),
                                          1, gIterIndex))
    /\ [][gPure /\ gLast'.op = "next" /\ gLast'.fetched # <<>> =>
            gOut = ElementsOfPages(gFetched)]_vars

\* The __next__ call that fetches page2, made when both elements of the first
\* page have been returned.
C22_Witness ==
    /\ gPc = "ready" /\ gPure /\ gVia = "fresh"
    /\ gLast.op = "next" /\ gLast.fetched = <<"page2">>
    /\ gFetched = <<FirstPage, "page2">>
    /\ gOut = <<"value1.0", "value1.1", "value2.0">>

\* The last call was a __next__ that returned an element.
Iterating == gPc = "ready" /\ gLast.op = "next" /\ gLast.result.kind = "response"

\* The end of the chain: next_link is None and the current batch has no
\* unread element.
AtEnd == gPc = "ready" /\ gNextLink = None /\ ~Unread

\* C40: over a finite chain of pages that ends with a None token, pages
\* without elements included, an iteration does not return elements for
\* ever; when __next__ raises StopIteration in an iteration made of __next__
\* calls only, the fetch operation has been called once for each page of the
\* chain, in chain order; and from then on, until reset() or get() is called,
\* every __next__ raises StopIteration, calls no fetch and changes nothing.
C40_IterationEnds ==
    /\ []<>~Iterating
    /\ [](gPure /\ gLast.op = "next" /\ gLast.result = Raised("StopIteration", "none")
            => gFetched = TokensFrom(gStart))
    /\ [](gLast.op = "next" /\ gLast.result = Raised("StopIteration", "none") => AtEnd)
    /\ [](AtEnd =>
            NextResult(gNextLink, gCurrentPage, gIterIndex, <<>>) =
                [result |-> Raised("StopIteration", "none"),
                 state |-> [next_link |-> gNextLink, current_page |-> gCurrentPage,
                            index |-> gIterIndex],
                 fetched |-> <<>>])
    /\ [][AtEnd /\ gLast'.op \notin {"reset", "get"} => AtEnd' /\ gFetched' = gFetched]_vars

\* A new Paged iterated to the end of a chain of three pages, the second
\* without elements.
C40_Witness ==
    /\ Exhausted("fresh") /\ AtEnd
    /\ gFetched = <<FirstPage, "page2", "page3">>
    /\ NoElements("page2")
    /\ gOut = <<"value1.0", "value1.1", "value3.0", "value3.1">>

----------------------------------------------------------------------------
(* Properties of polling *)

\* The polling method is a NoPolling or AsyncNoPolling.
IsNoPolling == lPc # "off" /\ lSteps = 0

\* C23: a polling method that completes on initialization is finished with
\* status "succeeded" from initialize on; a run() call on it changes neither
\* its status nor the number of pipeline calls nor anything of the poller;
\* and result() (or the await) returns deserialization_callback applied to
\* the initial response, with no pipeline call made since initialize.
C23_NoPolling ==
    /\ [](IsNoPolling =>
            /\ Finished(lStatus) /\ lStatus = "succeeded"
            /\ lQueries = 0
            /\ lResult \in {NoOutcome, Returned(Treated(InitialResponse))})
    /\ [][IsNoPolling /\ lDirect' # lDirect =>
            UNCHANGED <<lStatus, lQueries, lPc, lCallbacks, lCalled, lWaiting,
                        lResult, lDeserialized>>]_vars

\* run() was called on the NoPolling and result() returned the treated
\* initial response.
C23_Witness ==
    /\ IsNoPolling /\ lImpl = "LROPoller" /\ lDirect = 1 /\ lQueries = 0
    /\ lResult = Returned(Treated(InitialResponse)) /\ lDeserialized = 1

C23_WitnessAsync ==
    /\ IsNoPolling /\ lImpl = "async_poller" /\ lDirect = 1 /\ lQueries = 0
    /\ lResult = Returned(Treated(InitialResponse))

\* C24: while the poller loop runs the polling method is not finished, and
\* when the loop has ended it is; a resource is handed back only when
\* finished() holds, and it is the deserialized resource; once the status is
\* terminal it stays what it is and the poller invokes no run step.
C24_RunUntilFinished ==
    /\ [](lPc = "polling" => ~Finished(lStatus))
    /\ [](lPc \in {"done", "ended"} => Finished(lStatus) /\ lRuns = lSteps)
    /\ [](lResult.kind = "response" =>
            /\ Finished(lStatus) /\ lRuns = lSteps
            /\ lResult = Returned(Treated(InitialResponse)))
    /\ [][Finished(lStatus) => lStatus' = lStatus /\ lRuns' = lRuns]_vars

\* A polling method that needs two run steps and ends "failed": two steps were
\* invoked, then the resource was handed back.
C24_Witness ==
    /\ lPc \in {"done", "ended"} /\ lSteps = 2 /\ lRuns = 2 /\ lStatus = "failed"
    /\ lResult = Returned(Treated(InitialResponse)) /\ lQueries = 2

\* C25: when a run step raised, no further run step is invoked, the
\* deserialization callback is not called, and what result() or the await
\* hands to the caller is the exception the step raised, type and message.
C25_StepFailureIsTerminal ==
    /\ [](lPc = "broken" =>
            /\ lRuns = lBreaks /\ lDeserialized = 0
            /\ lResult \in {NoOutcome, StepError})
    /\ [](lPc # "off" /\ lBreaks > 0 /\ lRuns >= lBreaks => lPc = "broken")
    /\ [][lPc = "broken" => lPc' = "broken" /\ lRuns' = lRuns /\ lQueries' = lQueries
                             /\ lStatus' = lStatus]_vars

\* The second run step of an awaited async_poller raised ValueError.
C25_Witness ==
    /\ lPc = "broken" /\ lImpl = "async_poller" /\ lBreaks = 2 /\ lRuns = 2
    /\ lResult = Raised("ValueError", "Something bad happened")

C25_WitnessPoller ==
    /\ lPc = "broken" /\ lImpl = "LROPoller" /\ lBreaks = 1 /\ lRuns = 1
    /\ lResult = Raised("ValueError", "Something bad happened")

\* The invocations of a callback so far.
CallsOf(func) == SelectSeq(lCalled, LAMBDA e : e[1] = func)

C26_WitnessNoPolling ==
    /\ lImpl = "LROPoller" /\ IsNoPolling
    /\ lCalled = << <<"done_cb", ThePollingMethod, "at once">> >>
    /\ lResult = Returned(Treated(InitialResponse))

----------------------------------------------------------------------------
(* Properties of the sender scope and of the sessions *)

\* A run whose sender raised ends with that exception at the caller of run,
\* and has called no on_response.
SenderRaiseReachesCaller ==
    pPc = "raised" =>
        /\ pResult = Raised("Exception", "none")
        /\ CountOf(pLog, "on_response") = 0
        /\ CountOf(pLog, "on_request") = Len(pPolicies)

\* C32 as the specification states it: when the sender raised, the caller of
\* run gets an exception and no on_response was called; every policy that
\* defines on_exception had it called, and the exception such a policy raises
\* (NotImplementedError) is what the caller gets in place of the sender's.
C32_Original ==
    pPc = "raised" =>
        /\ pResult.kind = "raise"
        /\ CountOf(pLog, "on_response") = 0
        /\ \A i \in DOMAIN pPolicies :
              DefinesOnException(pPolicies[i]) =>
                  /\ \E j \in DOMAIN pLog : pLog[j] = <<"on_exception", pPolicies[i]>>
                  /\ pResult.class = "NotImplementedError"

\* C28: every run() makes exactly one build_context() call, when it starts:
\* nothing of the run is logged yet, the context is new and holds the
\* sender's session, whatever the context of the run before held, and no
\* other step builds or replaces a context; the sender sends with the session
\* its run's context holds, so a session a policy assigned in an earlier run
\* is not used by a later one; and with no policy the first node is the
\* sender, whose send is all the run logs.
C28_FreshContext ==
    /\ [](pPc # "off" => pContexts = pRuns)
    /\ [][IF pRuns' # pRuns
          THEN /\ pContexts' = pContexts + 1
               /\ pContext' = pContexts' /\ pContext' # pContext
               /\ pCtxSession' = SenderSession
               /\ pLog' = <<>> /\ pSendSession' = "none"
               /\ pPolicies = <<>> => pCur' = Sender
          ELSE pContexts' = pContexts /\ pContext' = pContext]_vars
    /\ [](pSendSession # "none" =>
            /\ pSendSession = pCtxSession
            /\ CountOf(pLog, "on_request") = Len(pPolicies))
    /\ [](pPolicies = <<>> /\ pPc = "done" => pLog = << <<"send", pSent>> >>)
    /\ [][pSendSession' # pSendSession /\ pSendSession' = CredentialsSession =>
            pCtxSession = CredentialsSession /\ pSwaps > 0]_vars

\* A policy assigned the credentials' session in the first run; the second
\* run was sent with the sender's session.
C28_Witness ==
    /\ pPc = "done" /\ pRuns = 2 /\ pSwaps = 1 /\ pContext = 2
    /\ pCtxSession = SenderSession /\ pSendSession = SenderSession

\* A run of a Pipeline without policies.
C28_WitnessNoPolicy ==
    /\ pPc = "done" /\ pPolicies = <<>> /\ pContext = 1
    /\ pLog = << <<"send", "r1">> >> /\ pSendSession = SenderSession

\* The scope of the Pipeline was left, or the sender closed, at least once.
LeftOrClosed == hPc = "ready" /\ hExits + hCloses >= 1

\* C27 as stated: however often the scope is left or the sender closed, the
\* session is closed exactly once.
C27_Original == LeftOrClosed => hSessionCloses = 1

\* C27: entering the scope calls the sender's __enter__ and changes nothing
\* else; every leaving of the scope and every close() of the sender calls
\* session.close(), once each, so the session is closed as many times as the
\* scope was left or the sender closed; after each of them the session holds
\* no connection, whether it held one before or not.
C27_ScopeClosesSender ==
    /\ [](hPc = "ready" => hSessionCloses = hExits + hCloses)
    /\ [][hEnters' # hEnters =>
            UNCHANGED <<hExits, hCloses, hSessionCloses, hPools, hBuilt>>]_vars
    /\ [][hExits' # hExits \/ hCloses' # hCloses =>
            /\ hSessionCloses' = hSessionCloses + 1
            /\ ~hPools']_vars

\* The scope was entered and left twice, with a request in each: the session
\* was closed twice and holds no connection.
C27_Witness ==
    /\ hPc = "ready" /\ hEnters = 2 /\ hExits = 2 /\ hCloses = 0
    /\ hSessionCloses = 2 /\ ~hPools

\* A close() on a session that was closed already.
C27_WitnessCloseAgain ==
    /\ hPc = "ready" /\ hExits = 1 /\ hCloses = 1 /\ hSessionCloses = 2 /\ ~hPools

\* C30 as stated: two build_context() calls made on a RequestsHTTPSender from
\* different threads give different sessions, each with the redirect
\* resolver patched, and all build_context() calls on a
\* BasicRequestsHTTPSender give the same session.
C30_Original ==
    \A i, j \in DOMAIN hBuilt :
        /\ hKind = "RequestsHTTPSender" =>
              /\ hBuilt[i].resolver.wrapped
              /\ hBuilt[i].thread # hBuilt[j].thread =>
                    hBuilt[i].session # hBuilt[j].session
        /\ hKind = "BasicRequestsHTTPSender" => hBuilt[i].session = hBuilt[j].session

----------------------------------------------------------------------------
(* Properties of the asynchronous pipeline *)

\* C29 as the specification states it: an AsyncPipeline can be made of any
\* list of pass-through policies; a run of it that ended has called the hooks
\* Pipeline.run calls, in the same order, and returned the response the
\* sender produced; and every leaving of its scope has called the sender's
\* exit, which closes the sender, as every leaving of a Pipeline's scope does.
C29_Original ==
    /\ aPc # "abstract"
    /\ aPc \in {"done", "raised"} =>
        /\ aPc = "done"
        /\ aLog = PipelineRunLog(aPolicies, aSent)
        /\ aResult = Returned(aSent)
    /\ aSenderExits * ClosesOnExit("BasicRequestsHTTPSender")
         = aExits * ClosesOnExit("BasicRequestsHTTPSender")

\* The same reading restricted to what the code does keep: a pipeline without
\* policies, where it can be constructed, sends and returns as Pipeline.run.
AsyncNoPolicyRun ==
    aPolicies = <<>> /\ aPc = "done" =>
        aLog = PipelineRunLog(aPolicies, aSent) /\ aResult = Returned(aSent)

----------------------------------------------------------------------------
(* Properties of the ServiceClient sessions *)

\* The step is a send() call.
IsSend == kLast'.n # kLast.n

\* A send() made through the client's own driver closes no session.
OwnDriverSendClosesNothing ==
    [][IsSend /\ kLast'.shared =>
        /\ kLast'.closed = {}
        /\ \A s \in DOMAIN kSessions : kSessions'[s].closes = kSessions[s].closes]_vars

\* C31 as the specification states it: a send made while config.keep_alive
\* is true, or inside the client's scope, goes through the client's own
\* driver; the credentials are applied to the session the driver held before
\* the call, every HTTP send of the call uses that session, the driver still
\* holds it afterwards and the call has not closed it; and no send closes a
\* session a driver was built with.
C31_Original ==
    /\ [][IsSend /\ (kLast'.keepAlive \/ kLast'.inScope) =>
            /\ kLast'.shared
            /\ \A i \in DOMAIN kLast'.signed : kLast'.signed[i] = kLast'.driverBefore
            /\ \A i \in DOMAIN kLast'.used : kLast'.used[i] = kLast'.driverBefore
            /\ kLast'.driverAfter = kLast'.driverBefore
            /\ kSessions'[kLast'.driverBefore].closes = kSessions[kLast'.driverBefore].closes]_vars
    /\ [][IsSend =>
            \A s \in DOMAIN kSessions :
                kSessions[s].origin = "driver" => kSessions'[s].closes = kSessions[s].closes]_vars

\* The part of C31 the code keeps for credentials that accept a session and
\* a request that carries no context of an earlier call.
KeepAliveInjectedSend ==
    [][IsSend /\ kLast'.keepAlive /\ kInject /\ kReqCtx = 0 =>
            /\ kLast'.shared
            /\ \A i \in DOMAIN kLast'.signed : kLast'.signed[i] = kLast'.driverBefore
            /\ \A i \in DOMAIN kLast'.used : kLast'.used[i] = kLast'.driverBefore
            /\ kLast'.driverAfter = kLast'.driverBefore]_vars

\* A send() in ad-hoc mode closes the session its driver holds at the end,
\* once, unless a response was obtained for a streamed call; it closes no
\* other session, and no session is closed twice by sends.
AdHocSendCloses ==
    /\ [][IsSend /\ ~kLast'.shared =>
            /\ kLast'.closed = IF kLast'.response /\ kLast'.stream THEN {}
                               ELSE {kLast'.driverAfter}
            /\ \A s \in DOMAIN kSessions' :
                  kSessions'[s].closes =
                      IF s \in kLast'.closed THEN 1
                      ELSE IF s \in DOMAIN kSessions THEN kSessions[s].closes ELSE 0]_vars
    /\ [](\A s \in DOMAIN kSessions : kSessions[s].origin = "local" => kSessions[s].closes <= 1)

\* C35 as the specification states it: a session that send() created
\* locally is closed once and no more, and while it is not closed the
\* streamed response of its call is still open: send() closed it before it
\* returned or raised, or it is closed when the response has been consumed
\* or released.
C35_Original ==
    \A s \in DOMAIN kSessions :
        kSessions[s].origin = "local" =>
            /\ kSessions[s].closes <= 1
            /\ kSessions[s].closes = 0 => kSessions[s].streaming

\* The step leaves the scope of client c.
Leaves(c) == kScope[c] /\ ~kScope'[c]

\* C38 as the specification states it: leaving a scope gives
\* config.keep_alive the value it had when that scope was entered, so a
\* Configuration preset to True is in keep-alive mode whenever no scope is
\* open, it is in keep-alive mode while a scope is open, and a send of a
\* client that is in its scope goes through the client's own driver.
C38_Original ==
    /\ [][\A c \in Clients : Leaves(c) => kKeepAlive' = kAtEnter[c]]_vars
    /\ [](kPreset /\ (\A c \in Clients : ~kScope[c]) => kKeepAlive)
    /\ []((\E c \in Clients : kScope[c]) => kKeepAlive)
    /\ [][IsSend /\ kLast'.inScope => kLast'.shared]_vars

\* What the code does: keep_alive is True after every entering and False
\* after every leaving.
KeepAliveFollowsLastScopeStep ==
    [][/\ (\E c \in Clients : ~kScope[c] /\ kScope'[c]) => kKeepAlive'
       /\ (\E c \in Clients : Leaves(c)) => ~kKeepAlive']_vars

----------------------------------------------------------------------------
(* Properties of chains made from the same policy objects *)

\* The runners made for SansIOHTTPPolicy objects belong to one Pipeline:
\* their next references stay as its __init__ assigned them.
RunnersStayWired ==
    nPc = "ready" =>
        \A pipeline \in DOMAIN nChains : \A index \in DOMAIN nChains[pipeline] :
            nChains[pipeline][index][1] = "runner" =>
                nNext[nChains[pipeline][index]] = nWired[pipeline][index]

\* C33 as the specification states it: whatever Pipelines are made later,
\* every node of a Pipeline keeps the next reference the Pipeline gave it, no
\* node belongs to two chains, and a send that entered the chain of a
\* Pipeline ends at that Pipeline's own sender.
C33_Original ==
    nPc = "ready" =>
        /\ \A pipeline \in DOMAIN nChains : \A index \in DOMAIN nChains[pipeline] :
              nNext[nChains[pipeline][index]] = nWired[pipeline][index]
        /\ \A first, second \in DOMAIN nChains :
              first # second => Range(nChains[first]) \cap Range(nChains[second]) = {}
        /\ nRun # 0 /\ nAt[1] = "sender" => nAt = SenderOf(nRun)

----------------------------------------------------------------------------
(* Properties of the two requests stacks *)

\* The response returned, or the class of the error raised.
OutcomeClass(outcome) ==
    IF outcome.kind = "response" THEN <<"response", outcome.response>>
    ELSE <<"raise", outcome.class>>

BothCalled == qSync # NotCalled /\ qAsync # NotCalled

\* C34 as the specification states it: once both stacks were called with the
\* same credentials and the same transport answers, they ended with the same
\* response or the same class of error, after as many sends and as many
\* refreshes.
C34_Original ==
    BothCalled =>
        /\ OutcomeClass(qSync.outcome) = OutcomeClass(qAsync.outcome)
        /\ qSync.sends = qAsync.sends
        /\ qSync.refreshes = qAsync.refreshes

\* The two stacks agree when a credentials policy is installed and the
\* credentials accept a session wherever they are given one.
StacksAgreeWithInjection ==
    BothCalled /\ qPolicy /\ qSignInject
      /\ (qRefreshInject \/ ~IsAuthRejection(qFirst)) =>
        /\ OutcomeClass(qSync.outcome) = OutcomeClass(qAsync.outcome)
        /\ qSync.sends = qAsync.sends
        /\ qSync.refreshes = qAsync.refreshes

----------------------------------------------------------------------------
(* Properties of RequestsPatchSession *)

\* The call with overrides ran alone: the other call has not started.
RanAlone == tPc["patching"] = "done" /\ tPc["plain"] = "idle"

\* C36 as the specification states it: whatever the overrides and the state
\* of the session before, once a send that ran alone has returned or raised,
\* max_redirects, trust_env and the max_retries of both adapters are what
\* they were before the call.
C36_Original == RanAlone => tSession = tBefore

\* What the code keeps: max_retries is restored always, max_redirects and
\* trust_env when the call did not override them or their old value was
\* neither 0 nor False.
RestoredUnlessFalsy ==
    RanAlone =>
        /\ tSession.http = tBefore.http /\ tSession.https = tBefore.https
        /\ "max_redirects" \notin tKwargs["patching"].keys \/ tBefore.max_redirects # 0
              => tSession.max_redirects = tBefore.max_redirects
        /\ "use_env_proxies" \notin tKwargs["patching"].keys \/ tBefore.trust_env
              => tSession.trust_env = tBefore.trust_env

\* C37 as the specification states it: the send of the call without
\* overrides works with the session's original settings, and when both calls
\* have finished the session has its original settings.
C37_Original ==
    /\ tSeen["plain"].seen => tSeen["plain"] = Seen(tBefore)
    /\ tPc["patching"] = "done" /\ tPc["plain"] = "done" => tSession = tBefore

\* A call without overrides changes nothing in the session.
PlainCallChangesNothing ==
    [][\E call \in PatchCalls : tPc'[call] # tPc[call] /\ tKwargs[call] = NoKwargs
          => tSession' = tSession]_vars

----------------------------------------------------------------------------
(* Properties of the call handed to the HTTP engine *)

\* The call carries every header the request has, with the request's value.
CarriesHeaders ==
    \A name \in HeaderNames : eHeaders[name] # Absent => eCall.headers[name] = eHeaders[name]

\* C39 as the specification states it: whatever the sender, the headers
\* the request has when it reaches the sender, those set by HeadersPolicy
\* and UserAgentPolicy included, and the body of the request are part of the
\* call handed to the HTTP engine.
C39_Original == ePc = "done" => CarriesHeaders /\ eCall.body = eBody

\* What the code keeps: RequestsHTTPSender hands over the headers and the
\* body of the request; the other three senders hand over neither.
OnlyRequestsHTTPSenderHandsOver ==
    ePc = "done" =>
        IF eSender = "RequestsHTTPSender"
        THEN CarriesHeaders /\ eCall.body = eBody
        ELSE eCall = BareCall

----------------------------------------------------------------------------
(* Specifications *)

NextPipeline ==
    \/ Run \/ RunnerOnRequest \/ PolicySwapSession \/ SenderSend \/ SenderRaise
    \/ RunnerOnResponse \/ RunReturn

InitPipeline ==
    /\ PipeIdle /\ CredOff /\ RetryOff /\ RedirOff
    /\ StreamOff /\ PagedOff /\ PollerOff /\ SenderOff /\ AsyncOff /\ ClientOff /\ ChainsOff
    /\ StacksOff /\ PatchOff /\ EngineOff

SpecPipeline == InitPipeline /\ [][NextPipeline]_vars

NextCredentials == CredSign \/ CredFirstSend \/ CredRefresh \/ CredResend

InitCredentials ==
    /\ PipeOff /\ CredIdle /\ RetryOff /\ RedirOff
    /\ StreamOff /\ PagedOff /\ PollerOff /\ SenderOff /\ AsyncOff /\ ClientOff /\ ChainsOff
    /\ StacksOff /\ PatchOff /\ EngineOff

SpecCredentials == InitCredentials /\ [][NextCredentials]_vars

NextRetry == SetRetries \/ RetryStartCall \/ RetryAttempt

InitRetry ==
    /\ PipeOff /\ CredOff /\ RetryIdle /\ RedirOff
    /\ StreamOff /\ PagedOff /\ PollerOff /\ SenderOff /\ AsyncOff /\ ClientOff /\ ChainsOff
    /\ StacksOff /\ PatchOff /\ EngineOff

SpecRetry == InitRetry /\ [][NextRetry]_vars

NextRedirect == RedirStartCall \/ RedirAnswer \/ RedirResolve

InitRedirect ==
    /\ PipeOff /\ CredOff /\ RetryOff /\ RedirIdle
    /\ StreamOff /\ PagedOff /\ PollerOff /\ SenderOff /\ AsyncOff /\ ClientOff /\ ChainsOff
    /\ StacksOff /\ PatchOff /\ EngineOff

SpecRedirect == InitRedirect /\ [][NextRedirect]_vars

NextStream ==
    \/ GeneratorStreamNext \/ AsyncStreamNext
    \/ AioHttpStreamNext \/ AioHttpStreamAwait \/ StreamRelease

InitStream ==
    /\ PipeOff /\ CredOff /\ RetryOff /\ RedirOff
    /\ StreamFresh /\ PagedOff /\ PollerOff /\ SenderOff /\ AsyncOff /\ ClientOff
    /\ ChainsOff /\ StacksOff /\ PatchOff /\ EngineOff

SpecStream == InitStream /\ [][NextStream]_vars

NextPaged == PagedNext \/ PagedAdvancePage \/ PagedReset \/ PagedGet

InitPaged ==
    /\ PipeOff /\ CredOff /\ RetryOff /\ RedirOff
    /\ StreamOff /\ PagedNew /\ PollerOff /\ SenderOff /\ AsyncOff /\ ClientOff /\ ChainsOff
    /\ StacksOff /\ PatchOff /\ EngineOff

SpecPaged == InitPaged /\ [][NextPaged]_vars

\* The consumer's loop goes on calling __next__ until it raises.
SpecPagedFair == SpecPaged /\ WF_vars(PagedNext)

NextPoller ==
    \/ PollerRunStep \/ PollerNotify \/ PollerAddDoneCallback
    \/ PollerResultCall \/ PollerResultReturn \/ PollingMethodRun

InitPoller ==
    /\ PipeOff /\ CredOff /\ RetryOff /\ RedirOff
    /\ StreamOff /\ PagedOff /\ PollerNew /\ SenderOff /\ AsyncOff /\ ClientOff /\ ChainsOff
    /\ StacksOff /\ PatchOff /\ EngineOff

SpecPoller == InitPoller /\ [][NextPoller]_vars

\* The poller's thread, once started, runs: the loop and the notification
\* are not held up for ever.
SpecPollerFair == SpecPoller /\ WF_vars(PollerRunStep) /\ WF_vars(PollerNotify)

NextSender ==
    \/ PipelineEnter \/ PipelineExit \/ SenderClose \/ SessionRequest
    \/ SenderBuildContext

InitSender ==
    /\ PipeOff /\ CredOff /\ RetryOff /\ RedirOff
    /\ StreamOff /\ PagedOff /\ PollerOff /\ SenderNew /\ AsyncOff /\ ClientOff /\ ChainsOff
    /\ StacksOff /\ PatchOff /\ EngineOff

SpecSender == InitSender /\ [][NextSender]_vars

NextAsync ==
    \/ AsyncPipelineInit \/ AsyncRun \/ AsyncRunnerPrepare \/ AsyncSenderSend
    \/ AsyncRunnerPostSend \/ AsyncRunReturn \/ AsyncPipelineEnter \/ AsyncPipelineExit

InitAsync ==
    /\ PipeOff /\ CredOff /\ RetryOff /\ RedirOff
    /\ StreamOff /\ PagedOff /\ PollerOff /\ SenderOff /\ AsyncNew /\ ClientOff /\ ChainsOff
    /\ StacksOff /\ PatchOff /\ EngineOff

SpecAsync == InitAsync /\ [][NextAsync]_vars

NextClient ==
    \/ ClientEnter \/ ClientExit \/ ClientClose \/ ClientSend \/ ClientStreamDownload

InitClient ==
    /\ CredOff /\ RetryOff /\ RedirOff /\ StreamOff /\ PagedOff /\ PollerOff
    /\ SenderOff /\ AsyncOff /\ PipeOff /\ ClientNew /\ ChainsOff /\ StacksOff /\ PatchOff
    /\ EngineOff

SpecClient == InitClient /\ [][NextClient]_vars

NextChains ==
    \/ PipelineInit \/ ChainRun \/ ChainNextSend \/ ChainSenderSend

InitChains ==
    /\ CredOff /\ RetryOff /\ RedirOff /\ StreamOff /\ PagedOff /\ PollerOff
    /\ SenderOff /\ AsyncOff /\ ClientOff /\ PipeOff /\ ChainsNew /\ StacksOff /\ PatchOff
    /\ EngineOff

SpecChains == InitChains /\ [][NextChains]_vars

NextStacks == SyncStackRun \/ AsyncStackRun

InitStacks ==
    /\ CredOff /\ RetryOff /\ RedirOff /\ StreamOff /\ PagedOff /\ PollerOff
    /\ SenderOff /\ AsyncOff /\ ClientOff /\ ChainsOff /\ PipeOff /\ StacksNew /\ PatchOff
    /\ EngineOff

SpecStacks == InitStacks /\ [][NextStacks]_vars

NextPatch == PatchSessionSend \/ PatchNextSend \/ PatchRestore

InitPatch ==
    /\ CredOff /\ RetryOff /\ RedirOff /\ StreamOff /\ PagedOff /\ PollerOff
    /\ SenderOff /\ AsyncOff /\ ClientOff /\ ChainsOff /\ StacksOff /\ PipeOff
    /\ PatchNew /\ EngineOff

SpecPatch == InitPatch /\ [][NextPatch]_vars

NextEngine ==
    \/ HeadersRun
    \/ HeadersOnRequest
    \/ HeadersSenderSend

InitEngine ==
    /\ CredOff /\ RetryOff /\ RedirOff /\ StreamOff /\ PagedOff /\ PollerOff
    /\ SenderOff /\ AsyncOff /\ ClientOff /\ ChainsOff /\ StacksOff /\ PatchOff
    /\ PipeOff /\ EngineNew

SpecEngine == InitEngine /\ [][NextEngine]_vars

Init ==
    \/ InitPipeline \/ InitCredentials \/ InitRetry \/ InitRedirect \/ InitStream
    \/ InitPaged \/ InitPoller \/ InitSender \/ InitAsync \/ InitClient \/ InitChains \/ InitStacks \/ InitPatch \/ InitEngine

Next ==
    \/ NextPipeline \/ NextCredentials \/ NextRetry \/ NextRedirect \/ NextStream
    \/ NextPaged \/ NextPoller \/ NextSender \/ NextAsync \/ NextClient \/ NextChains \/ NextStacks \/ NextPatch \/ NextEngine

Spec == Init /\ [][Next]_vars

====
